---- MODULE Spec2Model ----
(***************************************************************************)
(* Model of the MCP inspector's agent orchestration engine:                *)
(*   - the Trace Store            (src/web/lib/tracer.ts)                  *)
(*   - the connection manager     (src/unnamed/part_001, mcpHost)          *)
(*   - the streaming orchestrator (src/web/lib/llmLoop.ts)                 *)
(*   - the CLI orchestrator       (src/lib/llmLoop.ts)                     *)
(* Strings are TLA+ strings, so lengths, slices and concatenations are     *)
(* computed as the code computes them.                                     *)
(***************************************************************************)
EXTENDS Integers, Sequences, FiniteSets, TLC

VARIABLES
    tasks,            \* tracer.ts `tasks`      : task id -> Task
    toolCalls,        \* tracer.ts `toolCalls`  : task id -> sequence of ToolCall
    modelCalls,       \* tracer.ts `modelCalls` : task id -> sequence of ModelCall
    now,              \* wall clock read by `new Date()` / `Date.now()`
    connectedServers, \* mcpHost `connectedServers`, in insertion order
    pc,               \* position of the orchestrator run
    run,              \* local variables of the orchestrator run
    events,           \* the event stream handed to the consumer
    messages,         \* the conversation sent to the model
    host              \* mcpHost: client sessions and the calls of mcpHost under way

vars == <<tasks, toolCalls, modelCalls, now,
          connectedServers, pc, run, events, messages, host>>

storeVars == <<tasks, toolCalls, modelCalls, now>>
orchestratorVars == <<connectedServers, pc, run, events, messages, host>>

(***************************************************************************)
(* Bounds of the model.                                                    *)
(***************************************************************************)
MaxIterations == 3      \* config.maxIterations of the checked runs
MaxTasks == 1           \* tasks created in the Trace Store specifications
MaxToolCalls == 2       \* ToolCall rows per task in the Trace Store specifications
MaxModelCalls == 2      \* ModelCall rows per task in the Trace Store specifications
MaxStoreIterations == 1 \* incrementIteration calls per task in the Trace Store specifications
MaxClock == 1           \* clock ticks
MaxLateOutcomes == 1    \* callTool promises pending after their timer won the race
MaxSessions == 2        \* client sessions opened in the connection manager specification

\* JavaScript's `undefined` in a string field; no string of the input sets equals it.
Undefined == "<undefined>"
\* JavaScript's `undefined` in a number or Date field; times and counts are never negative.
UndefinedNumber == 0 - 1

TerminalStatuses == {"succeeded", "failed", "cancelled", "timeout"}

(***************************************************************************)
(* Strings                                                                 *)
(***************************************************************************)
RECURSIVE Repeat(_, _)
\* String.prototype.repeat: n copies of s (by halving, to keep recursion shallow)
Repeat(s, n) ==
    IF n = 0 THEN ""
    ELSE IF n = 1 THEN s
    ELSE LET h == Repeat(s, n \div 2)
         IN  IF n % 2 = 0 THEN h \o h ELSE h \o h \o s

\* str.slice(0, n) for n >= 0
SliceTo(str, n) == IF n >= Len(str) THEN str ELSE SubSeq(str, 1, n)

\* The mutant of truncateString that forgets to make room for the marker.
truncateStringNoRoom(str, maxLength) ==
    IF Len(str) <= maxLength THEN str
    ELSE SliceTo(str, maxLength) \o "..."

\* The mutant of truncateString that cuts one character too early.
truncateStringOffByOne(str, maxLength) ==
    IF Len(str) < maxLength THEN str
    ELSE SliceTo(str, maxLength - 3) \o "..."

\* tracer.ts truncateString
truncateString(str, maxLength) ==
    IF Len(str) <= maxLength THEN str
    ELSE SliceTo(str, maxLength - 3) \o "..."

\* The fixed length passed to truncateString by startToolCall / completeToolCall
StoredMaxLength == 1000

RECURSIVE JSONmembers(_)
\* the members of a serialised object: "k":"v","k2":"v2"
JSONmembers(args) ==
    IF args = <<>> THEN ""
    ELSE "\"" \o args[1][1] \o "\":\"" \o args[1][2] \o "\""
         \o (IF Len(args) > 1 THEN "," ELSE "") \o JSONmembers(Tail(args))

\* JSON.stringify of an arguments object, given as a sequence of <<key, string value>>
JSONstringify(args) == "{" \o JSONmembers(args) \o "}"

(***************************************************************************)
(* Trace Store (tracer.ts)                                                 *)
(***************************************************************************)
\* createTask: the Task object it builds
NewTask(id, userMessage, model, servers, t) ==
    [ id |-> id, createdAt |-> t, status |-> "pending", model |-> model,
      servers |-> servers, userMessage |-> userMessage,
      finalAnswer |-> Undefined, errorMessage |-> Undefined,
      totalInputTokens |-> 0, totalOutputTokens |-> 0, totalCost |-> UndefinedNumber,
      startedAt |-> UndefinedNumber, finishedAt |-> UndefinedNumber,
      durationMs |-> UndefinedNumber,
      iterationCount |-> 0 ]

\* updateTask: { ...task, ...updates } stored under taskId; nothing when the task is missing
updateTask(ts, taskId, updates) ==
    IF taskId \notin DOMAIN ts THEN ts
    ELSE [ts EXCEPT ![taskId] = updates @@ @]

\* startTask
startTask(ts, taskId, t) ==
    updateTask(ts, taskId, [status |-> "running", startedAt |-> t])

RECURSIVE SumField(_, _)
\* Array.prototype.reduce((sum, mc) => sum + mc[field], 0)
SumField(rows, field) ==
    IF rows = <<>> THEN 0 ELSE rows[1][field] + SumField(Tail(rows), field)

\* modelCalls.get(taskId) || []   and   toolCalls.get(taskId) || []
RowsOf(store, taskId) == IF taskId \in DOMAIN store THEN store[taskId] ELSE <<>>

\* The mutant of completeTask that keeps the running totals of the Task untouched.
completeTaskStaleTotals(ts, mcs, taskId, status, finalAnswer, errorMessage, t) ==
    updateTask(ts, taskId,
        [ status |-> status, finalAnswer |-> finalAnswer,
          errorMessage |-> errorMessage, finishedAt |-> t ])

\* completeTask; totalCost is kept in millionths of a dollar ($3 / $15 per 1M tokens)
completeTask(ts, mcs, taskId, status, finalAnswer, errorMessage, t) ==
    IF taskId \notin DOMAIN ts THEN ts
    ELSE LET task == ts[taskId]
             durationMs == IF task.startedAt # UndefinedNumber
                           THEN t - task.startedAt ELSE UndefinedNumber
             taskModelCalls == RowsOf(mcs, taskId)
             totalInputTokens == SumField(taskModelCalls, "inputTokens")
             totalOutputTokens == SumField(taskModelCalls, "outputTokens")
             totalCost == totalInputTokens * 3 + totalOutputTokens * 15
         IN  updateTask(ts, taskId,
                [ status |-> status, finalAnswer |-> finalAnswer,
                  errorMessage |-> errorMessage, finishedAt |-> t,
                  durationMs |-> durationMs,
                  totalInputTokens |-> totalInputTokens,
                  totalOutputTokens |-> totalOutputTokens,
                  totalCost |-> totalCost ])

\* incrementIteration: the number it returns
incrementIterationResult(ts, taskId) ==
    IF taskId \notin DOMAIN ts THEN 0 ELSE ts[taskId].iterationCount + 1

\* The mutant of incrementIteration that resets the task while counting.
incrementIterationRestarting(ts, taskId) ==
    updateTask(ts, taskId,
        [iterationCount |-> incrementIterationResult(ts, taskId), status |-> "running"])

\* incrementIteration: the store it leaves
incrementIteration(ts, taskId) ==
    IF taskId \notin DOMAIN ts THEN ts
    ELSE updateTask(ts, taskId, [iterationCount |-> incrementIterationResult(ts, taskId)])

\* The mutant of startToolCall that numbers the rows from 0.
NewToolCallFromZero(tcs, id, taskId, serverName, toolName, args, t) ==
    [ id |-> id, taskId |-> taskId, serverName |-> serverName, toolName |-> toolName,
      arguments |-> truncateString(JSONstringify(args), StoredMaxLength),
      status |-> "running", startedAt |-> t,
      sequenceNumber |-> Len(RowsOf(tcs, taskId)),
      result |-> Undefined, errorMessage |-> Undefined,
      finishedAt |-> UndefinedNumber, durationMs |-> UndefinedNumber ]

\* startToolCall: the ToolCall object it builds
NewToolCall(tcs, id, taskId, serverName, toolName, args, t) ==
    [ id |-> id, taskId |-> taskId, serverName |-> serverName, toolName |-> toolName,
      arguments |-> truncateString(JSONstringify(args), StoredMaxLength),
      status |-> "running", startedAt |-> t,
      sequenceNumber |-> Len(RowsOf(tcs, taskId)) + 1,
      result |-> Undefined, errorMessage |-> Undefined,
      finishedAt |-> UndefinedNumber, durationMs |-> UndefinedNumber ]

\* startToolCall: push the row and store the list under taskId
startToolCall(tcs, id, taskId, serverName, toolName, args, t) ==
    LET row == NewToolCall(tcs, id, taskId, serverName, toolName, args, t)
    IN  (taskId :> Append(RowsOf(tcs, taskId), row)) @@ tcs

RECURSIVE FindIndexFrom(_, _, _)
\* Array.prototype.findIndex((tc) => tc.id === id), 0 standing for -1
FindIndexFrom(rows, id, i) ==
    IF i > Len(rows) THEN 0
    ELSE IF rows[i].id = id THEN i
    ELSE FindIndexFrom(rows, id, i + 1)

findIndex(rows, id) == FindIndexFrom(rows, id, 1)

\* completeToolCall: the updated ToolCall object
CompletedToolCall(toolCall, status, result, errorMessage, t) ==
    [ toolCall EXCEPT
        !.status = status,
        !.result = IF result # Undefined /\ result # ""
                   THEN truncateString(result, StoredMaxLength) ELSE Undefined,
        !.errorMessage = errorMessage,
        !.finishedAt = t,
        !.durationMs = t - toolCall.startedAt ]

\* The mutant of completeToolCall that stores a row for an id it does not find.
completeToolCallUpserting(tcs, toolCallId, taskId, status, result, errorMessage, t) ==
    LET rows == RowsOf(tcs, taskId)
        index == findIndex(rows, toolCallId)
    IN  IF index = 0
        THEN (taskId :> Append(rows,
                 CompletedToolCall(NewToolCall(tcs, toolCallId, taskId, Undefined, Undefined,
                                               <<>>, t),
                                   status, result, errorMessage, t))) @@ tcs
        ELSE [tcs EXCEPT ![taskId][index] =
                 CompletedToolCall(@, status, result, errorMessage, t)]

\* completeToolCall: the store it leaves
completeToolCall(tcs, toolCallId, taskId, status, result, errorMessage, t) ==
    IF taskId \notin DOMAIN tcs THEN tcs
    ELSE LET index == findIndex(tcs[taskId], toolCallId)
         IN  IF index = 0 THEN tcs
             ELSE [tcs EXCEPT ![taskId][index] =
                      CompletedToolCall(@, status, result, errorMessage, t)]

\* completeToolCall: the value it returns, Undefined standing for undefined
completeToolCallResult(tcs, toolCallId, taskId, status, result, errorMessage, t) ==
    IF taskId \notin DOMAIN tcs THEN Undefined
    ELSE LET index == findIndex(tcs[taskId], toolCallId)
         IN  IF index = 0 THEN Undefined
             ELSE CompletedToolCall(tcs[taskId][index], status, result, errorMessage, t)

\* recordModelCall: the ModelCall object it builds
NewModelCall(id, taskId, type, inputTokens, outputTokens, durationMs, stopReason, t) ==
    [ id |-> id, taskId |-> taskId, type |-> type, inputTokens |-> inputTokens,
      outputTokens |-> outputTokens, durationMs |-> durationMs,
      createdAt |-> t, stopReason |-> stopReason ]

\* The mutant of recordModelCall that stores a list of the new row only.
recordModelCallReplacing(mcs, id, taskId, type, inputTokens, outputTokens, durationMs, stopReason, t) ==
    LET row == NewModelCall(id, taskId, type, inputTokens, outputTokens,
                            durationMs, stopReason, t)
    IN  (taskId :> <<row>>) @@ mcs

\* recordModelCall: push the row and store the list under taskId
recordModelCall(mcs, id, taskId, type, inputTokens, outputTokens, durationMs, stopReason, t) ==
    LET row == NewModelCall(id, taskId, type, inputTokens, outputTokens,
                            durationMs, stopReason, t)
    IN  (taskId :> Append(RowsOf(mcs, taskId), row)) @@ mcs

(***************************************************************************)
(* Fresh ids.  The code draws them from uuidv4(); the model takes the next *)
(* unused number, which is all the code relies on.                         *)
(***************************************************************************)
FreshTaskId(ts) == "task_" \o ToString(Cardinality(DOMAIN ts) + 1)
FreshRowId(prefix, store, taskId) ==
    prefix \o taskId \o "_" \o ToString(Len(RowsOf(store, taskId)) + 1)

\* A task id under which nothing was ever stored
MissingId == "task_0"

StoreInit ==
    /\ tasks = <<>>
    /\ toolCalls = <<>>
    /\ modelCalls = <<>>
    /\ now = 0

\* the local variables of a run, before the run
NoRun ==
    [ taskId |-> MissingId, serverIds |-> <<>>, iteration |-> 0,
      totalInputTokens |-> 0, totalOutputTokens |-> 0,
      toolUses |-> <<>>, toolIndex |-> 0, toolResults |-> <<>>,
      toolCallId |-> Undefined, serverName |-> Undefined,
      taskStartTime |-> 0, callStartTime |-> 0,
      runTask |-> "idle", timerFired |-> FALSE, cancelRequested |-> FALSE,
      task |-> [status |-> "pending", finalAnswer |-> Undefined, errorMessage |-> Undefined],
      result |-> [success |-> FALSE, error |-> Undefined] ]

\* a tool result that is plain text carries no structured code-execution result
NoParsed == [toolCalls |-> <<>>, finalResult |-> Undefined]

\* no executeTool has returned yet
NoToolResult == [result |-> Undefined, isError |-> FALSE, parsedResult |-> NoParsed]

\* mcpHost before any call: no session was opened, no call is under way.
\*   clients  : server id -> the client (session number) of its ConnectedServer in the map
\*   sessions : every client created so far, with the server it was created for
\*   sweep    : checkServerHealth; pos is the position of its Map iterator, startedAt
\*              the time it was called
\*   alone    : no other call that connects or disconnects ran beside this one
\*   call     : executeTool awaiting client.callTool, what the last executeTool
\*              returned, and late, the number of callTool promises that lost the
\*              race against the timer and have not settled yet
\*   connect  : connectServers, or a direct connectServer, and what the last one returned
\*   admin    : a direct disconnectServer, disconnectAllServers or restartServer; pos is
\*              the position of the keys() iterator, returned the client of the
\*              ConnectedServer a restart returned (0 for null)
NoHost ==
    [ clients |-> <<>>,
      sessions |-> <<>>,
      sweep |-> [pc |-> "idle", pos |-> 0, serverId |-> Undefined, client |-> 0,
                 startedAt |-> 0, alone |-> TRUE],
      call |-> [pc |-> "idle", client |-> 0, toolName |-> Undefined,
                returned |-> NoToolResult, late |-> 0],
      connect |-> [pc |-> "idle", direct |-> FALSE, serverIds |-> <<>>, index |-> 0,
                   client |-> 0, results |-> <<>>, threw |-> FALSE, alone |-> TRUE],
      admin |-> [op |-> "none", pc |-> "idle", pos |-> 0, serverId |-> Undefined,
                 client |-> 0, replaced |-> 0, returned |-> 0, alone |-> TRUE] ]

\* the orchestrators before any run
IdleOrchestrator ==
    /\ connectedServers = <<>>
    /\ pc = "idle"
    /\ run = NoRun
    /\ events = <<>>
    /\ messages = <<>>
    /\ host = NoHost

(***************************************************************************)
(* The Trace Store called directly, in any order, by any caller.           *)
(***************************************************************************)
TokenChoices == { [inputTokens |-> 3, outputTokens |-> 1],
                  [inputTokens |-> 5, outputTokens |-> 2] }

CompletionChoices ==
    { [status |-> "succeeded", finalAnswer |-> "answer", errorMessage |-> Undefined],
      [status |-> "failed", finalAnswer |-> Undefined, errorMessage |-> "boom"] }

KnownOrMissing(store) == DOMAIN store \cup {MissingId}

\* new Date() moves on
Tick ==
    /\ now < MaxClock
    /\ now' = now + 1
    /\ UNCHANGED <<tasks, toolCalls, modelCalls, orchestratorVars>>

StoreCreateTask ==
    /\ Cardinality(DOMAIN tasks) < MaxTasks
    /\ LET id == FreshTaskId(tasks)
       IN  /\ tasks' = (id :> NewTask(id, "question", "model", <<"filesystem">>, now)) @@ tasks
           /\ toolCalls' = (id :> <<>>) @@ toolCalls
           /\ modelCalls' = (id :> <<>>) @@ modelCalls
    /\ UNCHANGED <<now, orchestratorVars>>

StartTaskOf(taskId) ==
    /\ tasks' = startTask(tasks, taskId, now)
    /\ UNCHANGED <<toolCalls, modelCalls, now, orchestratorVars>>

StoreStartTask == \E taskId \in KnownOrMissing(tasks) : StartTaskOf(taskId)

CompleteTaskOf(taskId, c) ==
    /\ tasks' = completeTask(tasks, modelCalls, taskId, c.status,
                             c.finalAnswer, c.errorMessage, now)
    /\ UNCHANGED <<toolCalls, modelCalls, now, orchestratorVars>>

StoreCompleteTask ==
    \E taskId \in KnownOrMissing(tasks), c \in CompletionChoices : CompleteTaskOf(taskId, c)

IncrementIterationOf(taskId) ==
    /\ taskId \in DOMAIN tasks => tasks[taskId].iterationCount < MaxStoreIterations
    /\ tasks' = incrementIteration(tasks, taskId)
    /\ UNCHANGED <<toolCalls, modelCalls, now, orchestratorVars>>

StoreIncrementIteration == \E taskId \in KnownOrMissing(tasks) : IncrementIterationOf(taskId)

RecordModelCallOf(taskId, u) ==
    /\ Len(RowsOf(modelCalls, taskId)) < MaxModelCalls
    /\ LET id == FreshRowId("mc_", modelCalls, taskId)
           type == IF RowsOf(modelCalls, taskId) = <<>> THEN "initial" ELSE "tool-result"
       IN  modelCalls' = recordModelCall(modelCalls, id, taskId, type,
                             u.inputTokens, u.outputTokens, 0, "end_turn", now)
    /\ UNCHANGED <<tasks, toolCalls, now, orchestratorVars>>

\* The usage reported by the n-th model call of a task in the Trace Store specifications
StoreUsage(n) == IF n % 2 = 1 THEN [inputTokens |-> 3, outputTokens |-> 1]
                 ELSE [inputTokens |-> 5, outputTokens |-> 2]

StoreRecordModelCall ==
    \E taskId \in DOMAIN tasks :
        RecordModelCallOf(taskId, StoreUsage(Len(RowsOf(modelCalls, taskId)) + 1))

TaskStoreNext ==
    \/ StoreCreateTask
    \/ StoreStartTask
    \/ StoreCompleteTask
    \/ StoreIncrementIteration
    \/ StoreRecordModelCall

TaskStoreInit == StoreInit /\ IdleOrchestrator

\* The task half of the Trace Store under arbitrary callers
SpecTaskStore == TaskStoreInit /\ [][TaskStoreNext]_vars

ToolArgs == << <<"path", "/tmp/a">> >>

ToolCompletionChoices ==
    { [status |-> "success", result |-> "ok", errorMessage |-> Undefined],
      [status |-> "error", result |-> "bad", errorMessage |-> "bad"] }

\* every ToolCall id stored under any task
StoredToolCallIds ==
    UNION { { toolCalls[t][i].id : i \in 1..Len(toolCalls[t]) } : t \in DOMAIN toolCalls }

StartToolCallOf(taskId, args) ==
    /\ Len(RowsOf(toolCalls, taskId)) < MaxToolCalls
    /\ toolCalls' = startToolCall(toolCalls, FreshRowId("tc_", toolCalls, taskId), taskId,
                                  "Filesystem", "read_file", args, now)
    /\ UNCHANGED <<tasks, modelCalls, now, orchestratorVars>>

StoreStartToolCall == \E taskId \in KnownOrMissing(tasks) : StartToolCallOf(taskId, ToolArgs)

CompleteToolCallOf(toolCallId, taskId, c) ==
    /\ toolCalls' = completeToolCall(toolCalls, toolCallId, taskId, c.status,
                                     c.result, c.errorMessage, now)
    /\ UNCHANGED <<tasks, modelCalls, now, orchestratorVars>>

StoreCompleteToolCall ==
    \E taskId \in KnownOrMissing(toolCalls), c \in ToolCompletionChoices :
        \E toolCallId \in StoredToolCallIds \cup {MissingId} :
            CompleteToolCallOf(toolCallId, taskId, c)

ToolStoreNext ==
    \/ StoreCreateTask
    \/ StoreStartToolCall
    \/ StoreCompleteToolCall

\* The tool-call half of the Trace Store under arbitrary callers
SpecToolStore == TaskStoreInit /\ [][ToolStoreNext]_vars

\* startToolCall for a stored task
StoreStartToolCallOfTask == \E taskId \in DOMAIN tasks : StartToolCallOf(taskId, ToolArgs)

\* completeToolCall for the oldest running row of a stored task
StoreCompleteRunningToolCall ==
    \E taskId \in DOMAIN tasks, c \in ToolCompletionChoices :
        \E i \in 1..Len(toolCalls[taskId]) :
            /\ toolCalls[taskId][i].status = "running"
            /\ \A j \in 1..(i - 1) : toolCalls[taskId][j].status # "running"
            /\ CompleteToolCallOf(toolCalls[taskId][i].id, taskId, c)

StoreNext ==
    \/ StoreCreateTask
    \/ StoreCompleteTask
    \/ StoreRecordModelCall
    \/ StoreStartToolCallOfTask
    \/ StoreCompleteRunningToolCall

\* Tasks, ToolCalls and ModelCalls of the Trace Store under arbitrary callers
SpecStore == TaskStoreInit /\ [][StoreNext]_vars

(***************************************************************************)
(* Truncation: one ToolCall row per task, started and completed with       *)
(* strings whose lengths lie on both sides of the limit.                   *)
(***************************************************************************)
\* a string of n characters in which a cut at any place is visible
Pattern(n) == SliceTo(Repeat("abcdefg", n \div 7 + 1), n)

\* lengths of the tool results handed to completeToolCall
ResultLengths == {0, 1, 500, 997, 999, 1000, 1001, 1003, 5000}

ResultChoices == { Pattern(n) : n \in ResultLengths }

\* arguments objects {"k": <n characters>}, whose serialisation has n + 8 characters
ArgsChoices == { << <<"k", Pattern(n)>> >> : n \in {0, 492, 991, 992, 993, 4992} }

TruncStartToolCall ==
    \E taskId \in DOMAIN tasks, args \in ArgsChoices :
        /\ toolCalls[taskId] = <<>>
        /\ StartToolCallOf(taskId, args)

TruncCompleteToolCall ==
    \E taskId \in DOMAIN tasks, r \in ResultChoices, status \in {"success", "error"} :
        /\ toolCalls[taskId] # <<>>
        /\ CompleteToolCallOf(toolCalls[taskId][1].id, taskId,
               [status |-> status, result |-> r,
                errorMessage |-> IF status = "error" THEN r ELSE Undefined])

TruncationNext ==
    \/ StoreCreateTask
    \/ TruncStartToolCall
    \/ TruncCompleteToolCall
    \/ Tick

\* startToolCall / completeToolCall applied to short and long strings
SpecTruncation == TaskStoreInit /\ [][TruncationNext]_vars

(***************************************************************************)
(* Connection manager (mcpHost).  connectedServers is a JavaScript Map:    *)
(* here the sequence of its values in insertion order.  A tool descriptor  *)
(* is carried as its name.                                                 *)
(***************************************************************************)
\* mcp-servers.ts MCP_SERVERS
MCP_SERVERS ==
    << [id |-> "filesystem", name |-> "Filesystem"],
       [id |-> "brave-search", name |-> "Brave Search"],
       [id |-> "notion-mcp", name |-> "Notion MCP"] >>

RECURSIVE IndexOfId(_, _, _)
\* position of the first element of `rows` whose id is `id`, 0 when there is none
IndexOfId(rows, id, i) ==
    IF i > Len(rows) THEN 0
    ELSE IF rows[i].id = id THEN i
    ELSE IndexOfId(rows, id, i + 1)

\* Map.prototype.set: an existing key keeps its place, a new key goes last
MapSet(map, value) ==
    LET i == IndexOfId(map, value.id, 1)
    IN  IF i = 0 THEN Append(map, value) ELSE [map EXCEPT ![i] = value]

\* connectServer: the map it leaves; a failed connect leaves the map as it was
connectServer(map, definition, outcome, t) ==
    IF outcome.ok
    THEN MapSet(map, [ id |-> definition.id, name |-> definition.name,
                       status |-> "connected", lastHealthCheck |-> t,
                       tools |-> outcome.tools ])
    ELSE map

RECURSIVE connectServers(_, _, _, _)
\* connectServers: [map |-> the map it leaves, results |-> the servers it returns]
connectServers(serverIds, map, outcomes, t) ==
    IF serverIds = <<>> THEN [map |-> map, results |-> <<>>]
    ELSE LET serverId == Head(serverIds)
             existing == IndexOfId(map, serverId, 1)
             def == IndexOfId(MCP_SERVERS, serverId, 1)
             skip == connectServers(Tail(serverIds), map, outcomes, t)
         IN  IF existing # 0 /\ map[existing].status = "connected"
             THEN [skip EXCEPT !.results = <<map[existing]>> \o @]
             ELSE IF def = 0 THEN skip
             ELSE IF ~outcomes[serverId].ok THEN skip
             ELSE LET map2 == connectServer(map, MCP_SERVERS[def], outcomes[serverId], t)
                      rest == connectServers(Tail(serverIds), map2, outcomes, t)
                  IN  [rest EXCEPT
                         !.results = <<map2[IndexOfId(map2, serverId, 1)]>> \o @]

RECURSIVE getToolsInMapOrder(_, _)
\* the getToolsForServers that walks the map instead of the requested ids
getToolsInMapOrder(serverIds, map) ==
    IF map = <<>> THEN <<>>
    ELSE LET rest == getToolsInMapOrder(serverIds, Tail(map))
         IN  IF \A k \in 1..Len(serverIds) : serverIds[k] # Head(map).id THEN rest
             ELSE [k \in 1..Len(Head(map).tools) |->
                      [name |-> Head(map).tools[k], serverName |-> Head(map).name,
                       serverId |-> Head(map).id]] \o rest

RECURSIVE getToolsForServers(_, _)
\* getToolsForServers: the tools of the given servers, tagged with their server
getToolsForServers(serverIds, map) ==
    IF serverIds = <<>> THEN <<>>
    ELSE LET i == IndexOfId(map, Head(serverIds), 1)
             rest == getToolsForServers(Tail(serverIds), map)
         IN  IF i = 0 THEN rest
             ELSE [k \in 1..Len(map[i].tools) |->
                      [name |-> map[i].tools[k], serverName |-> map[i].name,
                       serverId |-> Head(serverIds)]] \o rest

RECURSIVE FindToolServerFrom(_, _, _)
FindToolServerFrom(map, toolName, i) ==
    IF i > Len(map) THEN 0
    ELSE IF \E k \in 1..Len(map[i].tools) : map[i].tools[k] = toolName THEN i
    ELSE FindToolServerFrom(map, toolName, i + 1)

\* findToolServer: the position in the map of the first server offering the tool, 0 for none
findToolServer(map, toolName) == FindToolServerFrom(map, toolName, 1)

\* the text of config.toolTimeoutMs ?? 30000 in the timeout message
ToolTimeoutMsText == "30000"

\* the tool descriptors a server lists when it is connected
ServerTools(serverId) ==
    IF serverId = "filesystem" THEN <<"read_file">>
    ELSE IF serverId = "brave-search" THEN <<"search", "read_file">>
    ELSE <<"query">>

\* what client.connect / client.listTools can do for a server
ConnectOutcomes(serverId) ==
    { [ok |-> FALSE, tools |-> <<>>],
      [ok |-> TRUE, tools |-> <<>>],
      [ok |-> TRUE, tools |-> ServerTools(serverId)] }

\* no outcome: the call was never made
NoOutcome == [kind |-> "none", text |-> "", isError |-> FALSE, parsed |-> NoParsed]

\* what client.callTool raced against the timer can do; parsed is the structured
\* code-execution result (NoParsed when the result is plain text)

SubToolCall == [toolName |-> "inner", args |-> <<>>, status |-> "success",
                result |-> "inner ok", errorMessage |-> Undefined, durationMs |-> 1]

SubToolCallFailed == [toolName |-> "inner2", args |-> <<>>, status |-> "error",
                      result |-> Undefined, errorMessage |-> "inner failed",
                      durationMs |-> 2]

ToolOutcomes(toolName) ==
    IF toolName = "search"
    THEN { [kind |-> "resolved", text |-> "denied", isError |-> TRUE, parsed |-> NoParsed],
           [kind |-> "rejected", text |-> "boom", isError |-> FALSE, parsed |-> NoParsed] }
    ELSE { [kind |-> "resolved", text |-> "ok", isError |-> FALSE, parsed |-> NoParsed],
           [kind |-> "timeout", text |-> "", isError |-> FALSE, parsed |-> NoParsed],
           [kind |-> "resolved", text |-> "{json}", isError |-> FALSE,
            parsed |-> [toolCalls |-> <<SubToolCall, SubToolCallFailed>>,
                        finalResult |-> "done"]] }

\* The mutant of executeTool that drops the message of the failure it caught.
executeToolDroppingMessage(map, toolName, outcome) ==
    IF findToolServer(map, toolName) = 0
    THEN [result |-> "Tool not found: " \o toolName, isError |-> TRUE, parsedResult |-> NoParsed]
    ELSE IF outcome.kind = "resolved"
    THEN [result |-> outcome.text, isError |-> outcome.isError, parsedResult |-> outcome.parsed]
    ELSE [result |-> "Tool execution failed", isError |-> TRUE, parsedResult |-> NoParsed]

\* The mutant of executeTool that reports an expired timer as a successful result.
executeToolHidingTimeout(map, toolName, outcome) ==
    IF findToolServer(map, toolName) = 0
    THEN [result |-> "Tool not found: " \o toolName, isError |-> TRUE, parsedResult |-> NoParsed]
    ELSE IF outcome.kind = "resolved"
    THEN [result |-> outcome.text, isError |-> outcome.isError, parsedResult |-> outcome.parsed]
    ELSE IF outcome.kind = "timeout"
    THEN [result |-> "", isError |-> FALSE, parsedResult |-> NoParsed]
    ELSE [result |-> "Tool execution failed: " \o outcome.text,
          isError |-> TRUE, parsedResult |-> NoParsed]

\* executeTool: what it returns for the outcome of the raced call
executeTool(map, toolName, outcome) ==
    IF findToolServer(map, toolName) = 0
    THEN [result |-> "Tool not found: " \o toolName, isError |-> TRUE, parsedResult |-> NoParsed]
    ELSE IF outcome.kind = "resolved"
    THEN [result |-> outcome.text, isError |-> outcome.isError, parsedResult |-> outcome.parsed]
    ELSE IF outcome.kind = "timeout"
    THEN [result |-> "Tool execution failed: Tool execution timed out after "
                     \o ToolTimeoutMsText \o "ms",
          isError |-> TRUE, parsedResult |-> NoParsed]
    ELSE [result |-> "Tool execution failed: " \o outcome.text,
          isError |-> TRUE, parsedResult |-> NoParsed]

(***************************************************************************)
(* The orchestrators work on the whole state at once: World is the state   *)
(* as a record, each helper maps a world to the world the code leaves, and *)
(* an action installs the world its handler step ends in.                  *)
(***************************************************************************)
World ==
    [ tasks |-> tasks, toolCalls |-> toolCalls, modelCalls |-> modelCalls, now |-> now,
      connectedServers |-> connectedServers, pc |-> pc, run |-> run,
      events |-> events, messages |-> messages, host |-> host ]

Install(world) ==
    \E w \in {world} :
        /\ tasks' = w.tasks
        /\ toolCalls' = w.toolCalls
        /\ modelCalls' = w.modelCalls
        /\ now' = w.now
        /\ connectedServers' = w.connectedServers
        /\ pc' = w.pc
        /\ run' = w.run
        /\ events' = w.events
        /\ messages' = w.messages
        /\ host' = w.host

\* the server id lists a run is asked for
ServerIdChoices ==
    { <<>>, <<"filesystem">>, <<"filesystem", "brave-search">>, <<"unknown-server">> }

\* what the model service can answer: a reply, or a failure with a message
NoFailure == Undefined

ToolUse(id, name) == [id |-> id, name |-> name, input |-> << <<"path", "/tmp/a">> >>]

ReplyChoices ==
    { [failure |-> NoFailure, text |-> "let me look", stop_reason |-> "tool_use",
       toolUses |-> <<ToolUse("toolu_1", "read_file")>>,
       inputTokens |-> 3, outputTokens |-> 1],
      [failure |-> NoFailure, text |-> "", stop_reason |-> "tool_use",
       toolUses |-> <<ToolUse("toolu_1", "search"), ToolUse("toolu_2", "read_file")>>,
       inputTokens |-> 5, outputTokens |-> 2],
      [failure |-> NoFailure, text |-> "the answer", stop_reason |-> "end_turn",
       toolUses |-> <<>>, inputTokens |-> 7, outputTokens |-> 4],
      [failure |-> NoFailure, text |-> "cut short", stop_reason |-> "max_tokens",
       toolUses |-> <<>>, inputTokens |-> 2, outputTokens |-> 8],
      [failure |-> NoFailure, text |-> "", stop_reason |-> "max_tokens",
       toolUses |-> <<>>, inputTokens |-> 4, outputTokens |-> 0],
      [failure |-> "429 rate limit exceeded", text |-> "", stop_reason |-> Undefined,
       toolUses |-> <<>>, inputTokens |-> 0, outputTokens |-> 0],
      [failure |-> "500 internal error", text |-> "", stop_reason |-> Undefined,
       toolUses |-> <<>>, inputTokens |-> 0, outputTokens |-> 0] }

Emit(w, event) == [w EXCEPT !.events = Append(@, event)]

\* Rest applied to the value of x, which is computed once, as a const of the code is
Then(x, Rest(_)) == CHOOSE r \in { Rest(v) : v \in {x} } : TRUE

(***************************************************************************)
(* Streaming orchestrator: runTaskGenerator (web/lib/llmLoop.ts)           *)
(***************************************************************************)
ErrorEvent(message, code) == [type |-> "error", message |-> message, code |-> code]

\* The mutant of the catch block that records the failure but tells the consumer nothing.
WebCatchSilent(w, message) ==
    [w EXCEPT !.tasks = completeTask(w.tasks, w.modelCalls, w.run.taskId,
                                     "failed", Undefined, message, w.now),
              !.pc = "done"]

\* the catch block of runTaskGenerator
WebCatch(w, message) ==
    LET w1 == [w EXCEPT !.tasks = completeTask(w.tasks, w.modelCalls, w.run.taskId,
                                               "failed", Undefined, message, w.now),
                        !.pc = "done"]
    IN  Emit(w1, ErrorEvent(message, "UNKNOWN_ERROR"))

\* after the while loop of runTaskGenerator: max iterations reached
WebMaxIterations(w) ==
    LET w1 == [w EXCEPT !.tasks = completeTask(w.tasks, w.modelCalls, w.run.taskId,
                                               "timeout", Undefined,
                                               "Max iterations exceeded", w.now),
                        !.pc = "done"]
    IN  Emit(w1, ErrorEvent("Max iterations exceeded", "MAX_ITERATIONS"))

\* The mutant of the loop head that lets one more iteration through.
WebLoopHeadOneMore(w) ==
    IF w.run.iteration <= MaxIterations
    THEN [w EXCEPT !.run.iteration = incrementIterationResult(w.tasks, w.run.taskId),
                   !.tasks = incrementIteration(w.tasks, w.run.taskId),
                   !.run.callStartTime = w.now,
                   !.pc = "awaitModel"]
    ELSE WebMaxIterations(w)

\* the head of the while loop: the next iteration up to the model call, or the exit
WebLoopHead(w) ==
    IF w.run.iteration < MaxIterations
    THEN [w EXCEPT !.run.iteration = incrementIterationResult(w.tasks, w.run.taskId),
                   !.tasks = incrementIteration(w.tasks, w.run.taskId),
                   !.run.callStartTime = w.now,
                   !.pc = "awaitModel"]
    ELSE WebMaxIterations(w)

ToolCallEvent(toolCallId, serverName, toolUse, status, result, errorMessage, durationMs) ==
    [ type |-> "tool-call", toolCallId |-> toolCallId, serverName |-> serverName,
      toolName |-> toolUse.name, args |-> toolUse.input, status |-> status,
      result |-> result, errorMessage |-> errorMessage, durationMs |-> durationMs,
      isSubToolCall |-> FALSE, parentToolCallId |-> Undefined ]

\* The mutant of the for-loop body that starts the tool without a running event.
WebStartToolSilent(w) ==
    LET toolUse == w.run.toolUses[w.run.toolIndex]
        server == findToolServer(w.connectedServers, toolUse.name)
        serverName == IF server = 0 THEN "unknown" ELSE w.connectedServers[server].name
        id == FreshRowId("tc_", w.toolCalls, w.run.taskId)
    IN  [w EXCEPT !.toolCalls = startToolCall(w.toolCalls, id, w.run.taskId,
                                    serverName, toolUse.name, toolUse.input, w.now),
                  !.run.toolCallId = id,
                  !.run.serverName = serverName,
                  !.run.callStartTime = w.now,
                  !.pc = "awaitTool"]

\* the body of the for loop up to the call of executeTool, for the tool use at toolIndex
WebStartTool(w) ==
    LET toolUse == w.run.toolUses[w.run.toolIndex]
        server == findToolServer(w.connectedServers, toolUse.name)
        serverName == IF server = 0 THEN "unknown" ELSE w.connectedServers[server].name
        id == FreshRowId("tc_", w.toolCalls, w.run.taskId)
        w1 == [w EXCEPT !.toolCalls = startToolCall(w.toolCalls, id, w.run.taskId,
                                          serverName, toolUse.name, toolUse.input, w.now),
                        !.run.toolCallId = id,
                        !.run.serverName = serverName,
                        !.run.callStartTime = w.now,
                        !.pc = "awaitTool"]
    IN  Emit(w1, ToolCallEvent(id, serverName, toolUse, "running",
                               Undefined, Undefined, UndefinedNumber))

RECURSIVE SubToolCallEventsCompletedOnly(_, _, _, _)
\* The mutant of the sub-tool call events that leaves out the running events.
SubToolCallEventsCompletedOnly(parentId, serverName, subToolCalls, k) ==
    IF k > Len(subToolCalls) THEN <<>>
    ELSE LET sub == subToolCalls[k]
         IN  << [ type |-> "tool-call",
                  toolCallId |-> parentId \o "-sub-" \o ToString(k),
                  serverName |-> serverName, toolName |-> sub.toolName,
                  args |-> sub.args, status |-> sub.status,
                  result |-> sub.result, errorMessage |-> sub.errorMessage,
                  durationMs |-> sub.durationMs,
                  isSubToolCall |-> TRUE, parentToolCallId |-> parentId ] >> \o
             SubToolCallEventsCompletedOnly(parentId, serverName, subToolCalls, k + 1)

RECURSIVE SubToolCallEvents(_, _, _, _)
\* the running and completed events of the sub-tool calls k.. of a code execution result
SubToolCallEvents(parentId, serverName, subToolCalls, k) ==
    IF k > Len(subToolCalls) THEN <<>>
    ELSE LET sub == subToolCalls[k]
             subToolId == parentId \o "-sub-" \o ToString(k)
             running == [ type |-> "tool-call", toolCallId |-> subToolId,
                          serverName |-> serverName, toolName |-> sub.toolName,
                          args |-> sub.args, status |-> "running",
                          result |-> Undefined, errorMessage |-> Undefined,
                          durationMs |-> UndefinedNumber,
                          isSubToolCall |-> TRUE, parentToolCallId |-> parentId ]
             completed == [ running EXCEPT !.status = sub.status, !.result = sub.result,
                                           !.errorMessage = sub.errorMessage,
                                           !.durationMs = sub.durationMs ]
         IN  <<running, completed>> \o
             SubToolCallEvents(parentId, serverName, subToolCalls, k + 1)

\* The mutant of the for-loop body that puts each tool result in front of the earlier ones.
WebToolReturnedUnshifting(w, outcome) ==
    LET toolUse == w.run.toolUses[w.run.toolIndex]
        r == executeTool(w.connectedServers, toolUse.name, outcome)
        toolDurationMs == w.now - w.run.callStartTime
        isCodeExecution == r.parsedResult # NoParsed
        content == IF isCodeExecution THEN r.parsedResult.finalResult ELSE r.result
        status == IF r.isError THEN "error" ELSE "success"
        errorMessage == IF r.isError THEN r.result ELSE Undefined
        subEvents == IF isCodeExecution
                     THEN SubToolCallEvents(w.run.toolCallId, w.run.serverName,
                                            r.parsedResult.toolCalls, 1)
                     ELSE <<>>
        w1 == [w EXCEPT
                 !.toolCalls = completeToolCall(w.toolCalls, w.run.toolCallId, w.run.taskId,
                                                status, content, errorMessage, w.now),
                 !.events = (@ \o subEvents) \o
                            << ToolCallEvent(w.run.toolCallId, w.run.serverName, toolUse,
                                             status, content, errorMessage, toolDurationMs) >>,
                 !.run.toolResults = << [ type |-> "tool_result",
                                           tool_use_id |-> toolUse.id,
                                           content |-> content,
                                           is_error |-> r.isError ] >> \o @]
    IN  Then(w1, LAMBDA v :
            IF v.run.toolIndex < Len(v.run.toolUses)
            THEN WebStartTool([v EXCEPT !.run.toolIndex = @ + 1])
            ELSE WebLoopHead([v EXCEPT
                     !.messages = Append(@, [role |-> "user",
                                             content |-> v.run.toolResults])]))

\* The mutant of the for-loop body that neither completes the ToolCall nor yields its
\* event when the invocation failed.
WebToolReturnedDroppingErrors(w, outcome) ==
    LET toolUse == w.run.toolUses[w.run.toolIndex]
        r == executeTool(w.connectedServers, toolUse.name, outcome)
        toolDurationMs == w.now - w.run.callStartTime
        isCodeExecution == r.parsedResult # NoParsed
        content == IF isCodeExecution THEN r.parsedResult.finalResult ELSE r.result
        status == IF r.isError THEN "error" ELSE "success"
        errorMessage == IF r.isError THEN r.result ELSE Undefined
        subEvents == IF isCodeExecution
                     THEN SubToolCallEvents(w.run.toolCallId, w.run.serverName,
                                            r.parsedResult.toolCalls, 1)
                     ELSE <<>>
        w1 == [w EXCEPT
                 !.toolCalls = IF r.isError THEN @
                               ELSE completeToolCall(w.toolCalls, w.run.toolCallId,
                                                     w.run.taskId, status, content,
                                                     errorMessage, w.now),
                 !.events = IF r.isError THEN @
                            ELSE (@ \o subEvents) \o
                                 << ToolCallEvent(w.run.toolCallId, w.run.serverName, toolUse,
                                                  status, content, errorMessage,
                                                  toolDurationMs) >>,
                 !.run.toolResults = Append(@, [ type |-> "tool_result",
                                                 tool_use_id |-> toolUse.id,
                                                 content |-> content,
                                                 is_error |-> r.isError ])]
    IN  Then(w1, LAMBDA v :
            IF v.run.toolIndex < Len(v.run.toolUses)
            THEN WebStartTool([v EXCEPT !.run.toolIndex = @ + 1])
            ELSE WebLoopHead([v EXCEPT
                     !.messages = Append(@, [role |-> "user",
                                             content |-> v.run.toolResults])]))

\* the body of the for loop after executeTool has returned, then the next tool use or,
\* after the last one, the tool results appended to the conversation and the loop head
WebToolReturned(w, outcome) ==
    LET toolUse == w.run.toolUses[w.run.toolIndex]
        r == executeTool(w.connectedServers, toolUse.name, outcome)
        toolDurationMs == w.now - w.run.callStartTime
        isCodeExecution == r.parsedResult # NoParsed
        content == IF isCodeExecution THEN r.parsedResult.finalResult ELSE r.result
        status == IF r.isError THEN "error" ELSE "success"
        errorMessage == IF r.isError THEN r.result ELSE Undefined
        subEvents == IF isCodeExecution
                     THEN SubToolCallEvents(w.run.toolCallId, w.run.serverName,
                                            r.parsedResult.toolCalls, 1)
                     ELSE <<>>
        w1 == [w EXCEPT
                 !.toolCalls = completeToolCall(w.toolCalls, w.run.toolCallId, w.run.taskId,
                                                status, content, errorMessage, w.now),
                 !.events = (@ \o subEvents) \o
                            << ToolCallEvent(w.run.toolCallId, w.run.serverName, toolUse,
                                             status, content, errorMessage, toolDurationMs) >>,
                 !.run.toolResults = Append(@, [ type |-> "tool_result",
                                                 tool_use_id |-> toolUse.id,
                                                 content |-> content,
                                                 is_error |-> r.isError ])]
    IN  Then(w1, LAMBDA v :
            IF v.run.toolIndex < Len(v.run.toolUses)
            THEN WebStartTool([v EXCEPT !.run.toolIndex = @ + 1])
            ELSE WebLoopHead([v EXCEPT
                     !.messages = Append(@, [role |-> "user",
                                             content |-> v.run.toolResults])]))

\* The mutant of the loop body that pushes the assistant message of every reply.
WebModelRepliedAlwaysPushing(w, reply) ==
    IF reply.failure # NoFailure THEN WebCatch(w, reply.failure)
    ELSE
    LET llmDurationMs == w.now - w.run.callStartTime
        w1 == [w EXCEPT
                 !.run.totalInputTokens = @ + reply.inputTokens,
                 !.run.totalOutputTokens = @ + reply.outputTokens,
                 !.modelCalls = recordModelCall(w.modelCalls,
                                    FreshRowId("mc_", w.modelCalls, w.run.taskId),
                                    w.run.taskId,
                                    IF w.run.iteration = 1 THEN "initial" ELSE "tool-result",
                                    reply.inputTokens, reply.outputTokens, llmDurationMs,
                                    reply.stop_reason, w.now),
                 !.events = Append(@, [ type |-> "llm-response", content |-> reply.text,
                                        inputTokens |-> reply.inputTokens,
                                        outputTokens |-> reply.outputTokens,
                                        durationMs |-> llmDurationMs,
                                        hasToolCalls |-> Len(reply.toolUses) > 0 ])]
    IN  Then(w1, LAMBDA v :
            IF Len(reply.toolUses) > 0
            THEN WebStartTool([v EXCEPT
                     !.messages = Append(@, [role |-> "assistant",
                                             content |-> [text |-> reply.text,
                                                          toolUses |-> reply.toolUses]]),
                     !.run.toolUses = reply.toolUses,
                     !.run.toolIndex = 1,
                     !.run.toolResults = <<>>])
            ELSE IF reply.stop_reason = "end_turn"
            THEN Emit([v EXCEPT
                          !.tasks = completeTask(v.tasks, v.modelCalls, v.run.taskId,
                                                 "succeeded", reply.text, Undefined, v.now),
                          !.pc = "done"],
                      [ type |-> "task-completed", status |-> "succeeded",
                        finalAnswer |-> reply.text,
                        totalDurationMs |-> v.now - v.run.taskStartTime,
                        totalInputTokens |-> v.run.totalInputTokens,
                        totalOutputTokens |-> v.run.totalOutputTokens ])
            ELSE WebLoopHead([v EXCEPT
                     !.messages = Append(@, [role |-> "assistant",
                                             content |-> [text |-> reply.text,
                                                          toolUses |-> reply.toolUses]])]))

\* the loop body after the model call has returned or failed
WebModelReplied(w, reply) ==
    IF reply.failure # NoFailure THEN WebCatch(w, reply.failure)
    ELSE
    LET llmDurationMs == w.now - w.run.callStartTime
        w1 == [w EXCEPT
                 !.run.totalInputTokens = @ + reply.inputTokens,
                 !.run.totalOutputTokens = @ + reply.outputTokens,
                 !.modelCalls = recordModelCall(w.modelCalls,
                                    FreshRowId("mc_", w.modelCalls, w.run.taskId),
                                    w.run.taskId,
                                    IF w.run.iteration = 1 THEN "initial" ELSE "tool-result",
                                    reply.inputTokens, reply.outputTokens, llmDurationMs,
                                    reply.stop_reason, w.now),
                 !.events = Append(@, [ type |-> "llm-response", content |-> reply.text,
                                        inputTokens |-> reply.inputTokens,
                                        outputTokens |-> reply.outputTokens,
                                        durationMs |-> llmDurationMs,
                                        hasToolCalls |-> Len(reply.toolUses) > 0 ])]
    IN  Then(w1, LAMBDA v :
            IF Len(reply.toolUses) > 0
            THEN WebStartTool([v EXCEPT
                     !.messages = Append(@, [role |-> "assistant",
                                             content |-> [text |-> reply.text,
                                                          toolUses |-> reply.toolUses]]),
                     !.run.toolUses = reply.toolUses,
                     !.run.toolIndex = 1,
                     !.run.toolResults = <<>>])
            ELSE IF reply.stop_reason = "end_turn"
            THEN Emit([v EXCEPT
                          !.tasks = completeTask(v.tasks, v.modelCalls, v.run.taskId,
                                                 "succeeded", reply.text, Undefined, v.now),
                          !.pc = "done"],
                      [ type |-> "task-completed", status |-> "succeeded",
                        finalAnswer |-> reply.text,
                        totalDurationMs |-> v.now - v.run.taskStartTime,
                        totalInputTokens |-> v.run.totalInputTokens,
                        totalOutputTokens |-> v.run.totalOutputTokens ])
            ELSE WebLoopHead(v))

\* the ids of serverIds as a set
IdsOf(serverIds) == { serverIds[i] : i \in 1..Len(serverIds) }

AllConnectOutcomes == UNION { ConnectOutcomes(d.id) : d \in { MCP_SERVERS[i] : i \in 1..Len(MCP_SERVERS) } }

\* one connect outcome for each requested server
OutcomeMaps(serverIds) ==
    { f \in [IdsOf(serverIds) -> AllConnectOutcomes] :
        \A id \in IdsOf(serverIds) : f[id] \in ConnectOutcomes(id) }

\* The mutant of runTaskGenerator that goes on without checking what was connected.
WebConnectedWorldUnchecked(w, outcomes, apiKey) ==
    Then(connectServers(w.run.serverIds, w.connectedServers, outcomes, w.now), LAMBDA c :
        WebLoopHead([w EXCEPT
            !.connectedServers = c.map,
            !.tasks = startTask(w.tasks, w.run.taskId, w.now),
            !.messages = << [role |-> "user", content |-> w.tasks[w.run.taskId].userMessage] >>,
            !.run.iteration = 0]))

\* runTaskGenerator from connectServers returning to the first model call
WebConnectedWorld(w, outcomes, apiKey) ==
    Then(connectServers(w.run.serverIds, w.connectedServers, outcomes, w.now), LAMBDA c :
        LET w1 == [w EXCEPT !.connectedServers = c.map]
            tools == getToolsForServers(w.run.serverIds, c.map)
            w2 == [w1 EXCEPT !.tasks = startTask(w.tasks, w.run.taskId, w.now)]
        IN  IF Len(c.results) = 0 THEN WebCatch(w1, "No MCP servers could be connected")
            ELSE IF Len(tools) = 0
            THEN WebCatch(w1, "No tools available from connected servers")
            ELSE IF ~apiKey
            THEN WebCatch(w2, "ANTHROPIC_API_KEY environment variable is required")
            ELSE WebLoopHead([w2 EXCEPT
                     !.messages = << [role |-> "user",
                                      content |-> w.tasks[w.run.taskId].userMessage] >>,
                     !.run.iteration = 0]))

\* After the consumer has cancelled the stream, controller.enqueue throws at the next
\* event, the for-await loop of the route ends the generator at the yield it is suspended
\* at, and no statement after that yield runs.  The three helpers below are the steps of
\* runTaskGenerator up to their first yield.
WebConnectedCancelled(w, outcomes, apiKey) ==
    Then(WebConnectedWorld(w, outcomes, apiKey), LAMBDA v :
        IF v.pc = "done" THEN [v EXCEPT !.events = w.events, !.pc = "aborted"] ELSE v)

WebModelRepliedCancelled(w, reply) ==
    IF reply.failure # NoFailure
    THEN Then(WebCatch(w, reply.failure), LAMBDA v :
             [v EXCEPT !.events = w.events, !.pc = "aborted"])
    ELSE [w EXCEPT
            !.run.totalInputTokens = @ + reply.inputTokens,
            !.run.totalOutputTokens = @ + reply.outputTokens,
            !.modelCalls = recordModelCall(w.modelCalls,
                               FreshRowId("mc_", w.modelCalls, w.run.taskId),
                               w.run.taskId,
                               IF w.run.iteration = 1 THEN "initial" ELSE "tool-result",
                               reply.inputTokens, reply.outputTokens,
                               w.now - w.run.callStartTime, reply.stop_reason, w.now),
            !.pc = "aborted"]

WebToolReturnedCancelled(w, outcome) ==
    LET r == executeTool(w.connectedServers, w.run.toolUses[w.run.toolIndex].name, outcome)
        isCodeExecution == r.parsedResult # NoParsed
    IN  IF isCodeExecution /\ Len(r.parsedResult.toolCalls) > 0
        THEN [w EXCEPT !.pc = "aborted"]
        ELSE [w EXCEPT
                !.toolCalls = completeToolCall(w.toolCalls, w.run.toolCallId, w.run.taskId,
                                  IF r.isError THEN "error" ELSE "success",
                                  IF isCodeExecution THEN r.parsedResult.finalResult
                                                     ELSE r.result,
                                  IF r.isError THEN r.result ELSE Undefined, w.now),
                !.pc = "aborted"]

\* runTaskGenerator is called: createTask, task-started, connectServers is awaited
WebRun ==
    /\ pc = "idle"
    /\ \E serverIds \in ServerIdChoices :
         LET id == FreshTaskId(tasks)
             w == [World EXCEPT
                     !.tasks = (id :> NewTask(id, "question", "model", serverIds, now)) @@ @,
                     !.toolCalls = (id :> <<>>) @@ @,
                     !.modelCalls = (id :> <<>>) @@ @,
                     !.run = [NoRun EXCEPT !.taskId = id, !.serverIds = serverIds,
                                           !.taskStartTime = now],
                     !.pc = "awaitConnect"]
         IN  Install(Emit(w, [type |-> "task-started", taskId |-> id, timestamp |-> now]))

\* connectServers has returned
WebConnected ==
    /\ pc = "awaitConnect"
    /\ \E outcomes \in OutcomeMaps(run.serverIds), apiKey \in BOOLEAN :
         Install(IF run.cancelRequested
                 THEN WebConnectedCancelled(World, outcomes, apiKey)
                 ELSE WebConnectedWorld(World, outcomes, apiKey))

\* client.messages.create has returned or thrown
WebModelReply ==
    /\ pc = "awaitModel"
    /\ \E reply \in ReplyChoices :
         Install(IF run.cancelRequested
                 THEN WebModelRepliedCancelled(World, reply)
                 ELSE WebModelReplied(World, reply))

\* executeTool has returned
WebToolResult ==
    /\ pc = "awaitTool"
    /\ \E outcome \in ToolOutcomes(run.toolUses[run.toolIndex].name) :
         Install(IF run.cancelRequested
                 THEN WebToolReturnedCancelled(World, outcome)
                 ELSE WebToolReturned(World, outcome))

\* the consumer cancels the stream while the run is under way: cancel() of the route
WebCancel ==
    /\ pc \in {"awaitConnect", "awaitModel", "awaitTool"}
    /\ ~run.cancelRequested
    /\ Install([World EXCEPT !.run.cancelRequested = TRUE])

WebNext ==
    \/ WebRun
    \/ WebConnected
    \/ WebModelReply
    \/ WebToolResult

WebInit == StoreInit /\ IdleOrchestrator

\* one run of the streaming orchestrator
SpecWeb == WebInit /\ [][WebNext]_vars

\* the server id lists of the run that came before
EarlierServerIdChoices ==
    { <<"filesystem">>, <<"filesystem", "brave-search">>, <<"brave-search", "filesystem">> }

\* what an earlier run with serverIds leaves behind: every server connected and listed
\* its tools, and the first model reply was the final answer
EarlierRun(serverIds) ==
    LET w0 == [ tasks |-> <<>>, toolCalls |-> <<>>, modelCalls |-> <<>>, now |-> 0,
                connectedServers |-> <<>>, pc |-> "idle", run |-> NoRun,
                events |-> <<>>, messages |-> <<>>, host |-> NoHost ]
        id == FreshTaskId(w0.tasks)
        w1 == [w0 EXCEPT
                 !.tasks = (id :> NewTask(id, "question", "model", serverIds, 0)) @@ @,
                 !.toolCalls = (id :> <<>>) @@ @,
                 !.modelCalls = (id :> <<>>) @@ @,
                 !.run = [NoRun EXCEPT !.taskId = id, !.serverIds = serverIds],
                 !.pc = "awaitConnect"]
        outcomes == [s \in IdsOf(serverIds) |-> [ok |-> TRUE, tools |-> ServerTools(s)]]
        reply == [failure |-> NoFailure, text |-> "the answer", stop_reason |-> "end_turn",
                  toolUses |-> <<>>, inputTokens |-> 7, outputTokens |-> 4]
    IN  WebModelReplied(WebConnectedWorld(w1, outcomes, TRUE), reply)

\* the module state when the route is called again: the store and the provider map are
\* those the earlier run left, the stream and the locals of the run are new
WebSecondInit ==
    \E serverIds \in EarlierServerIdChoices :
        \E w \in {EarlierRun(serverIds)} :
            /\ tasks = w.tasks
            /\ toolCalls = w.toolCalls
            /\ modelCalls = w.modelCalls
            /\ now = w.now
            /\ connectedServers = w.connectedServers
            /\ pc = "idle"
            /\ run = NoRun
            /\ events = <<>>
            /\ messages = <<>>
            /\ host = NoHost

\* a run of the streaming orchestrator in a process that has run a task before
SpecWebSecond == WebSecondInit /\ [][WebNext]_vars

\* clearStores, called by another user of the module while the loop of a run is running
clearStores ==
    /\ pc \in {"awaitModel", "awaitTool"}
    /\ tasks # <<>>
    /\ tasks' = <<>>
    /\ toolCalls' = <<>>
    /\ modelCalls' = <<>>
    /\ UNCHANGED <<now, orchestratorVars>>

\* the number of model calls of the run that have returned a reply
ModelRepliesOfRun ==
    Cardinality({ i \in 1..Len(events) : events[i].type = "llm-response" })

\* client.messages.create has returned or thrown; the model explores one call beyond
\* maxIterations and no more
WebModelReplyWithinReach ==
    /\ ModelRepliesOfRun <= MaxIterations
    /\ WebModelReply

WebClearNext ==
    \/ WebRun
    \/ WebConnected
    \/ WebModelReplyWithinReach
    \/ WebToolResult
    \/ clearStores

\* one run of the streaming orchestrator beside a caller of clearStores
SpecWebClear == WebInit /\ [][WebClearNext]_vars

WebCancelNext ==
    \/ WebRun
    \/ WebConnected
    \/ WebModelReply
    \/ WebToolResult
    \/ WebCancel

\* one run of the streaming orchestrator whose consumer may cancel the stream
SpecWebCancel == WebInit /\ [][WebCancelNext]_vars

\* the same, every awaited call (connect, model call, tool call raced against its timer)
\* returning or failing in the end
SpecWebFair == SpecWeb /\ WF_vars(WebNext)

(***************************************************************************)
(* Command-line orchestrator: runTask and runLLMLoop (lib/llmLoop.ts).     *)
(* run.task is the object createTask returned, which runTask and           *)
(* runLLMLoop share; the store replaces its own copy on every update, so   *)
(* run.task changes only where runLLMLoop assigns to it.  run.runTask is   *)
(* the position of runTask ("connecting", "racing", "returned", or         *)
(* "crashed" when the process died), pc the position of runLLMLoop, which  *)
(* goes on after a task timeout has settled the race.                      *)
(***************************************************************************)
\* String.prototype.includes
includes(str, needle) ==
    \E i \in 1..(Len(str) - Len(needle) + 1) : SubSeq(str, i, i + Len(needle) - 1) = needle

\* the rejection of taskTimeoutPromise
TaskTimeoutMessage == "Task timeout exceeded"

\* the catch block of runTask
CliCatch(w, message) ==
    [w EXCEPT
       !.tasks = completeTask(w.tasks, w.modelCalls, w.run.taskId,
                              IF includes(message, "timeout") THEN "timeout" ELSE "failed",
                              Undefined, message, w.now),
       !.run.runTask = "returned",
       !.run.result = [success |-> FALSE, error |-> message]]

\* runTask after the race has resolved: complete the task from the shared task object
CliRaceResolved(w) ==
    LET status == IF w.run.task.status = "running" THEN "succeeded" ELSE w.run.task.status
        ts == completeTask(w.tasks, w.modelCalls, w.run.taskId, status,
                           w.run.task.finalAnswer, Undefined, w.now)
    IN  [w EXCEPT !.tasks = ts,
                  !.run.runTask = "returned",
                  !.run.result = [success |-> ts[w.run.taskId].status = "succeeded",
                                  error |-> Undefined]]

\* runLLMLoop returns: the race resolves unless the timer has settled it already
CliLoopResolved(w) ==
    IF w.run.runTask = "racing"
    THEN CliRaceResolved([w EXCEPT !.pc = "done"])
    ELSE [w EXCEPT !.pc = "done"]

\* runLLMLoop throws: the race rejects unless the timer has settled it already
CliLoopRejected(w, message) ==
    IF w.run.runTask = "racing"
    THEN CliCatch([w EXCEPT !.pc = "done"], message)
    ELSE [w EXCEPT !.pc = "done"]

\* the head of the while loop of runLLMLoop: the next iteration up to the model call,
\* or the exit at max iterations
CliLoopHead(w) ==
    IF w.run.iteration < MaxIterations
    THEN [w EXCEPT !.run.iteration = incrementIterationResult(w.tasks, w.run.taskId),
                   !.tasks = incrementIteration(w.tasks, w.run.taskId),
                   !.run.callStartTime = w.now,
                   !.pc = "awaitModel"]
    ELSE CliLoopResolved([w EXCEPT
             !.run.task.status = "timeout",
             !.run.task.errorMessage =
                 "Max iterations (" \o ToString(MaxIterations) \o ") exceeded"])

\* the body of the for loop up to the call of executeTool, for the tool use at toolIndex
CliStartTool(w) ==
    LET toolUse == w.run.toolUses[w.run.toolIndex]
        server == findToolServer(w.connectedServers, toolUse.name)
        serverName == IF server = 0 THEN "unknown" ELSE w.connectedServers[server].name
        id == FreshRowId("tc_", w.toolCalls, w.run.taskId)
    IN  [w EXCEPT !.toolCalls = startToolCall(w.toolCalls, id, w.run.taskId,
                                    serverName, toolUse.name, toolUse.input, w.now),
                  !.run.toolCallId = id,
                  !.run.serverName = serverName,
                  !.pc = "awaitTool"]

\* the body of the for loop after executeTool has returned, then the next tool use or,
\* after the last one, the tool results appended to the conversation and the loop head
CliToolReturned(w, outcome) ==
    LET toolUse == w.run.toolUses[w.run.toolIndex]
        r == executeTool(w.connectedServers, toolUse.name, outcome)
        w1 == [w EXCEPT
                 !.toolCalls = completeToolCall(w.toolCalls, w.run.toolCallId, w.run.taskId,
                                                IF r.isError THEN "error" ELSE "success",
                                                r.result,
                                                IF r.isError THEN r.result ELSE Undefined,
                                                w.now),
                 !.run.toolResults = Append(@, [ type |-> "tool_result",
                                                 tool_use_id |-> toolUse.id,
                                                 content |-> r.result,
                                                 is_error |-> r.isError ])]
    IN  Then(w1, LAMBDA v :
            IF v.run.toolIndex < Len(v.run.toolUses)
            THEN CliStartTool([v EXCEPT !.run.toolIndex = @ + 1])
            ELSE CliLoopHead([v EXCEPT
                     !.messages = Append(@, [role |-> "user",
                                             content |-> v.run.toolResults])]))

\* the loop body after the model call has returned or failed
CliModelReplied(w, reply) ==
    IF reply.failure # NoFailure
    THEN IF includes(reply.failure, "rate") \/ includes(reply.failure, "429")
         THEN [w EXCEPT !.pc = "sleeping"]
         ELSE CliLoopRejected(w, reply.failure)
    ELSE
    LET w1 == [w EXCEPT
                 !.modelCalls = recordModelCall(w.modelCalls,
                                    FreshRowId("mc_", w.modelCalls, w.run.taskId),
                                    w.run.taskId,
                                    IF w.run.iteration = 1 THEN "initial" ELSE "tool-result",
                                    reply.inputTokens, reply.outputTokens,
                                    w.now - w.run.callStartTime,
                                    reply.stop_reason, w.now)]
    IN  Then(w1, LAMBDA v :
            IF Len(reply.toolUses) > 0
            THEN CliStartTool([v EXCEPT
                     !.messages = Append(@, [role |-> "assistant",
                                             content |-> [text |-> reply.text,
                                                          toolUses |-> reply.toolUses]]),
                     !.run.toolUses = reply.toolUses,
                     !.run.toolIndex = 1,
                     !.run.toolResults = <<>>])
            ELSE IF reply.stop_reason = "end_turn" \/ reply.text # ""
            THEN CliLoopResolved([v EXCEPT !.run.task.finalAnswer = reply.text,
                                           !.run.task.status = "succeeded"])
            ELSE CliLoopResolved(v))

\* after sleep(5000): iteration--, continue
CliSlept(w) == CliLoopHead([w EXCEPT !.run.iteration = @ - 1])

\* runTask from connectServers returning to the race of the loop against the timer
CliConnectedWorld(w, outcomes, apiKey) ==
    Then(connectServers(w.run.serverIds, w.connectedServers, outcomes, w.now), LAMBDA c :
        LET w1 == [w EXCEPT !.connectedServers = c.map, !.pc = "done"]
            tools == getToolsForServers(w.run.serverIds, c.map)
            w2 == [w1 EXCEPT !.tasks = startTask(w.tasks, w.run.taskId, w.now),
                             !.run.runTask = "racing"]
        IN  IF Len(c.results) = 0 THEN CliCatch(w1, "No MCP servers could be connected")
            ELSE IF Len(tools) = 0
            THEN CliCatch(w1, "No tools available from connected servers")
            ELSE IF ~apiKey
            THEN CliLoopRejected(w2, "ANTHROPIC_API_KEY environment variable is required")
            ELSE Then(CliLoopHead([w2 EXCEPT
                          !.messages = << [role |-> "user",
                                           content |-> w.tasks[w.run.taskId].userMessage] >>,
                          !.run.iteration = 0]),
                      LAMBDA v : IF v.run.timerFired /\ v.run.runTask = "racing"
                                 THEN CliCatch(v, TaskTimeoutMessage)
                                 ELSE v))

\* what the runtime does with a rejected promise nobody handles yet
UnhandledRejections == {"exit", "warn"}

\* the timer of taskTimeoutPromise fires: while runTask awaits the race the race rejects;
\* before the race the rejection is unhandled; after runTask has returned nobody listens
CliTimerFiredWorld(w, unhandled) ==
    IF w.run.runTask = "racing"
    THEN CliCatch([w EXCEPT !.run.timerFired = TRUE], TaskTimeoutMessage)
    ELSE IF w.run.runTask = "connecting" /\ unhandled = "exit"
    THEN [w EXCEPT !.run.timerFired = TRUE, !.run.runTask = "crashed", !.pc = "crashed"]
    ELSE [w EXCEPT !.run.timerFired = TRUE]

\* runTask is called: createTask, the task timer is armed, connectServers is awaited
CliRun ==
    /\ pc = "idle"
    /\ \E serverIds \in ServerIdChoices :
         LET id == FreshTaskId(tasks)
         IN  Install([World EXCEPT
                 !.tasks = (id :> NewTask(id, "question", "model", serverIds, now)) @@ @,
                 !.toolCalls = (id :> <<>>) @@ @,
                 !.modelCalls = (id :> <<>>) @@ @,
                 !.run = [NoRun EXCEPT !.taskId = id, !.serverIds = serverIds,
                                       !.runTask = "connecting"],
                 !.pc = "awaitConnect"])

\* connectServers has returned
CliConnected ==
    /\ pc = "awaitConnect"
    /\ \E outcomes \in OutcomeMaps(run.serverIds), apiKey \in BOOLEAN :
         Install(CliConnectedWorld(World, outcomes, apiKey))

\* client.messages.create has returned or thrown
CliModelReply ==
    /\ pc = "awaitModel"
    /\ \E reply \in ReplyChoices : Install(CliModelReplied(World, reply))

\* the sleep after a rate-limit failure is over
CliSleepDone ==
    /\ pc = "sleeping"
    /\ Install(CliSlept(World))

\* executeTool has returned
CliToolResult ==
    /\ pc = "awaitTool"
    /\ \E outcome \in ToolOutcomes(run.toolUses[run.toolIndex].name) :
         Install(CliToolReturned(World, outcome))

\* the timer of taskTimeoutPromise fires
CliTimerFired ==
    /\ run.runTask \in {"connecting", "racing", "returned"}
    /\ ~run.timerFired
    /\ \E unhandled \in UnhandledRejections : Install(CliTimerFiredWorld(World, unhandled))

CliNext ==
    \/ CliRun
    \/ CliConnected
    \/ CliModelReply
    \/ CliSleepDone
    \/ CliToolResult
    \/ CliTimerFired

CliInit == StoreInit /\ IdleOrchestrator

\* one run of the command-line orchestrator
SpecCli == CliInit /\ [][CliNext]_vars

(***************************************************************************)
(* Connection manager, step by step (mcpHost).  Each action runs one call  *)
(* of mcpHost from one await to the next, so the periodic health check,    *)
(* a tool invocation and a connect interleave as they do on the event      *)
(* loop.  A client is the number of its session in host.sessions.          *)
(***************************************************************************)
\* the ConnectedServer objects of the map, by the client each one holds
ClientOf(w, serverId) == w.host.clients[serverId]

\* connectedServers.delete(serverId); an iterator past the entry moves back with it
HostDelete(w, serverId) ==
    LET i == IndexOfId(w.connectedServers, serverId, 1)
    IN  IF i = 0 THEN w
        ELSE [w EXCEPT
                !.connectedServers = SubSeq(@, 1, i - 1) \o SubSeq(@, i + 1, Len(@)),
                !.host.clients = [id \in DOMAIN @ \ {serverId} |-> @[id]],
                !.host.sweep.pos = IF i < @ THEN @ - 1 ELSE @,
                !.host.admin.pos = IF i < @ THEN @ - 1 ELSE @]

\* connected.server.status = status on the object holding `client`: seen in the map
\* only while that object is still the map's entry for the server
HostSetStatus(w, serverId, client, status) ==
    LET i == IndexOfId(w.connectedServers, serverId, 1)
    IN  IF i # 0 /\ ClientOf(w, serverId) = client
        THEN [w EXCEPT !.connectedServers[i].status = status]
        ELSE w

\* connected.server.lastHealthCheck = new Date(), on the same terms
HostSetLastHealthCheck(w, serverId, client) ==
    LET i == IndexOfId(w.connectedServers, serverId, 1)
    IN  IF i # 0 /\ ClientOf(w, serverId) = client
        THEN [w EXCEPT !.connectedServers[i].lastHealthCheck = w.now]
        ELSE w

\* connectServer up to its await: new Client(...), then client.connect is awaited
HostNewClient(w, serverId) ==
    [w EXCEPT !.host.sessions = Append(@, [serverId |-> serverId, state |-> "connecting"])]

\* connectServer after its awaits, for the client created last by this caller:
\* success stores the ConnectedServer under its id, failure leaves the map alone
HostConnectServerReturned(w, definition, client, outcome) ==
    IF outcome.ok
    THEN [w EXCEPT
            !.connectedServers = connectServer(@, definition, outcome, w.now),
            !.host.clients = (definition.id :> client) @@ @,
            !.host.sessions[client].state = "open"]
    ELSE [w EXCEPT !.host.sessions[client].state = "failed"]

\* for (const [serverId, connected] of connectedServers): the next entry, or the end
HostSweepNext(w) ==
    IF w.host.sweep.pos > Len(w.connectedServers)
    THEN [w EXCEPT !.host.sweep = NoHost.sweep]
    ELSE LET serverId == w.connectedServers[w.host.sweep.pos].id
         IN  [w EXCEPT !.host.sweep = [pc |-> "probing", pos |-> @.pos + 1,
                                       serverId |-> serverId,
                                       client |-> ClientOf(w, serverId),
                                       startedAt |-> @.startedAt,
                                       alone |-> @.alone]]

\* restartServer after disconnectServer: find the definition, connect again
HostRestartConnect(w) ==
    LET def == IndexOfId(MCP_SERVERS, w.host.sweep.serverId, 1)
    IN  IF def = 0 THEN HostSweepNext(w)
        ELSE Then(HostNewClient(w, w.host.sweep.serverId), LAMBDA w1 :
                 [w1 EXCEPT !.host.sweep.pc = "connecting",
                            !.host.sweep.client = Len(w1.host.sessions)])

\* the checkServerHealth that marks a failed probe and goes on without a restart
HostProbeFailedNoRestart(w) ==
    HostSweepNext(HostSetStatus(w, w.host.sweep.serverId, w.host.sweep.client, "error"))

\* checkServerHealth, the probe failed: status 'error', then restartServer calls
\* disconnectServer, which closes the client of the entry the map holds now
HostProbeFailed(w) ==
    Then(HostSetStatus(w, w.host.sweep.serverId, w.host.sweep.client, "error"), LAMBDA w1 :
        IF IndexOfId(w1.connectedServers, w1.host.sweep.serverId, 1) = 0
        THEN HostRestartConnect(w1)
        ELSE [w1 EXCEPT !.host.sweep.pc = "closing",
                        !.host.sweep.client = ClientOf(w1, w1.host.sweep.serverId)])

\* checkServerHealth, the probe answered: status 'connected', a new lastHealthCheck
HostProbeSucceeded(w) ==
    HostSweepNext(
        HostSetLastHealthCheck(
            HostSetStatus(w, w.host.sweep.serverId, w.host.sweep.client, "connected"),
            w.host.sweep.serverId, w.host.sweep.client))

\* disconnectServer after client.close() returned or threw, then restartServer goes on
HostCloseReturned(w, closed) ==
    Then([w EXCEPT !.host.sessions[w.host.sweep.client].state =
                       IF closed THEN "closed" ELSE "close failed"], LAMBDA w1 :
        HostRestartConnect(
            HostDelete(
                HostSetStatus(w1, w1.host.sweep.serverId, w1.host.sweep.client, "disconnected"),
                w1.host.sweep.serverId)))

\* restartServer after connectServer returned or threw (it answers null then)
HostRestartReturned(w, outcome) ==
    HostSweepNext(
        HostConnectServerReturned(
            w, MCP_SERVERS[IndexOfId(MCP_SERVERS, w.host.sweep.serverId, 1)],
            w.host.sweep.client, outcome))

RECURSIVE HostConnectLoop(_)
\* connectServers from the head of its loop to its next await, or to its return
HostConnectLoop(w) ==
    LET c == w.host.connect
    IN  IF c.index > Len(c.serverIds)
        THEN [w EXCEPT !.host.connect.pc = "idle"]
        ELSE LET serverId == c.serverIds[c.index]
                 existing == IndexOfId(w.connectedServers, serverId, 1)
                 def == IndexOfId(MCP_SERVERS, serverId, 1)
             IN  IF existing # 0 /\ w.connectedServers[existing].status = "connected"
                 THEN HostConnectLoop(
                          [w EXCEPT !.host.connect.results =
                                        Append(@, [id |-> serverId,
                                                   client |-> ClientOf(w, serverId)]),
                                    !.host.connect.index = @ + 1])
                 ELSE IF def = 0
                 THEN HostConnectLoop([w EXCEPT !.host.connect.index = @ + 1])
                 ELSE Then(HostNewClient(w, serverId), LAMBDA w1 :
                          [w1 EXCEPT !.host.connect.pc = "connecting",
                                     !.host.connect.client = Len(w1.host.sessions)])

\* connectServers(serverIds) is called
HostConnectServersCalled(w, serverIds) ==
    HostConnectLoop(
        [w EXCEPT !.host.connect =
            [pc |-> "running", direct |-> FALSE, serverIds |-> serverIds, index |-> 1,
             client |-> 0, results |-> <<>>, threw |-> FALSE,
             alone |-> w.host.sweep.pc = "idle"],
                  !.host.admin.alone = @ /\ w.host.admin.pc = "idle",
                  !.host.sweep.alone = @ /\ w.host.sweep.pc = "idle"])

\* connectServer(definition) is called on its own
HostConnectServerCalled(w, definition) ==
    Then(HostNewClient(w, definition.id), LAMBDA w1 :
        [w1 EXCEPT !.host.connect =
            [pc |-> "connecting", direct |-> TRUE, serverIds |-> <<definition.id>>,
             index |-> 1, client |-> Len(w1.host.sessions), results |-> <<>>,
             threw |-> FALSE, alone |-> w.host.sweep.pc = "idle"],
                   !.host.admin.alone = @ /\ w.host.admin.pc = "idle",
                   !.host.sweep.alone = @ /\ w.host.sweep.pc = "idle"])

\* the connectServers that returns a server it failed to connect
HostConnectReturnedKeepingFailed(w, outcome) ==
    LET c == w.host.connect
        serverId == c.serverIds[c.index]
    IN  Then(HostConnectServerReturned(
                 w, MCP_SERVERS[IndexOfId(MCP_SERVERS, serverId, 1)], c.client, outcome),
             LAMBDA w1 :
        IF c.direct
        THEN [w1 EXCEPT !.host.connect.pc = "idle",
                        !.host.connect.threw = ~outcome.ok,
                        !.host.connect.results =
                            IF outcome.ok THEN <<[id |-> serverId, client |-> c.client]>>
                            ELSE <<>>]
        ELSE HostConnectLoop(
                 [w1 EXCEPT !.host.connect.index = @ + 1,
                            !.host.connect.results =
                                Append(@, [id |-> serverId, client |-> c.client])]))

\* the awaited connectServer returned or threw: a direct call ends as it did,
\* connectServers pushes the server or logs the error and goes on
HostConnectReturned(w, outcome) ==
    LET c == w.host.connect
        serverId == c.serverIds[c.index]
    IN  Then(HostConnectServerReturned(
                 w, MCP_SERVERS[IndexOfId(MCP_SERVERS, serverId, 1)], c.client, outcome),
             LAMBDA w1 :
        IF c.direct
        THEN [w1 EXCEPT !.host.connect.pc = "idle",
                        !.host.connect.threw = ~outcome.ok,
                        !.host.connect.results =
                            IF outcome.ok THEN <<[id |-> serverId, client |-> c.client]>>
                            ELSE <<>>]
        ELSE HostConnectLoop(
                 [w1 EXCEPT !.host.connect.index = @ + 1,
                            !.host.connect.results =
                                IF outcome.ok
                                THEN Append(@, [id |-> serverId, client |-> c.client])
                                ELSE @]))

\* executeTool up to its await: the owner is looked up, its client is called
HostExecuteToolCalled(w, toolName) ==
    LET found == findToolServer(w.connectedServers, toolName)
    IN  IF found = 0
        THEN [w EXCEPT !.host.call.toolName = toolName,
                       !.host.call.client = 0,
                       !.host.call.returned =
                           executeTool(w.connectedServers, toolName, NoOutcome)]
        ELSE [w EXCEPT !.host.call.pc = "inflight",
                       !.host.call.toolName = toolName,
                       !.host.call.client = ClientOf(w, w.connectedServers[found].id)]

\* the executeTool that marks the server of a failed call
HostExecuteToolReturnedMarkingError(w, outcome) ==
    Then([w EXCEPT !.host.call.pc = "idle",
                   !.host.call.returned =
                       executeTool(<<[tools |-> <<w.host.call.toolName>>]>>,
                                   w.host.call.toolName, outcome),
                   !.host.call.late = IF outcome.kind = "timeout" THEN @ + 1 ELSE @],
         LAMBDA w1 :
        IF ~w1.host.call.returned.isError THEN w1
        ELSE [w1 EXCEPT !.connectedServers =
                 [i \in 1..Len(@) |->
                     IF w.host.clients[@[i].id] = w.host.call.client
                     THEN [@[i] EXCEPT !.status = "error"] ELSE @[i]]])

\* executeTool after the race of client.callTool against the timer: what it returns
\* for the server found when it was called; a call that lost the race stays pending
HostExecuteToolReturned(w, outcome) ==
    [w EXCEPT !.host.call.pc = "idle",
              !.host.call.returned =
                  executeTool(<<[tools |-> <<w.host.call.toolName>>]>>,
                              w.host.call.toolName, outcome),
              !.host.call.late = IF outcome.kind = "timeout" THEN @ + 1 ELSE @]

\* the late outcome that is handed on as the result of the call
HostLateOutcomeDelivered(w, text) ==
    [w EXCEPT !.host.call.late = @ - 1,
              !.host.call.returned = [@ EXCEPT !.result = text, !.isError = FALSE],
              !.toolCalls = [taskId \in DOMAIN @ |->
                  [i \in 1..Len(@[taskId]) |->
                      IF i = Len(@[taskId])
                      THEN [@[taskId][i] EXCEPT !.status = "success", !.result = text]
                      ELSE @[taskId][i]]]]

\* a callTool promise settles after the timer has won the race: nothing reads it
HostLateOutcome(w, text) ==
    [w EXCEPT !.host.call.late = @ - 1]

\* disconnectServer(serverId) called on its own, up to its await: no entry and it
\* returns at once, otherwise the client of the entry is closed
HostDisconnectServerCalled(w, op, serverId) ==
    LET start == [op |-> op, pc |-> "idle", pos |-> 0, serverId |-> serverId,
                  client |-> 0, replaced |-> 0, returned |-> 0,
                  alone |-> w.host.connect.pc = "idle" /\ w.host.sweep.pc = "idle"]
    IN  IF IndexOfId(w.connectedServers, serverId, 1) = 0
        THEN [w EXCEPT !.host.admin = start,
                       !.host.sweep.alone = @ /\ w.host.sweep.pc = "idle"]
        ELSE [w EXCEPT !.host.admin = [start EXCEPT !.pc = "closing",
                                                    !.client = ClientOf(w, serverId),
                                                    !.replaced = ClientOf(w, serverId)],
                       !.host.sweep.alone = @ /\ w.host.sweep.pc = "idle"]

\* for (const serverId of connectedServers.keys()) await disconnectServer(serverId):
\* the next key, whose entry the map holds at this moment, or the end
HostKeysNext(w) ==
    IF w.host.admin.pos > Len(w.connectedServers)
    THEN [w EXCEPT !.host.admin.pc = "idle"]
    ELSE LET serverId == w.connectedServers[w.host.admin.pos].id
         IN  [w EXCEPT !.host.admin.pc = "closing",
                       !.host.admin.pos = @ + 1,
                       !.host.admin.serverId = serverId,
                       !.host.admin.client = ClientOf(w, serverId)]

\* disconnectAllServers() is called
HostDisconnectAllCalled(w) ==
    HostKeysNext(
        [w EXCEPT !.host.admin =
            [op |-> "disconnectAll", pc |-> "idle", pos |-> 1, serverId |-> Undefined,
             client |-> 0, replaced |-> 0, returned |-> 0,
             alone |-> w.host.connect.pc = "idle" /\ w.host.sweep.pc = "idle"],
                  !.host.sweep.alone = @ /\ w.host.sweep.pc = "idle"])

\* restartServer(serverId) called on its own, after its disconnectServer: no
\* definition and it returns null, otherwise connectServer is awaited
HostRestartServerDisconnected(w) ==
    IF IndexOfId(MCP_SERVERS, w.host.admin.serverId, 1) = 0
    THEN [w EXCEPT !.host.admin.pc = "idle", !.host.admin.returned = 0]
    ELSE Then(HostNewClient(w, w.host.admin.serverId), LAMBDA w1 :
             [w1 EXCEPT !.host.admin.pc = "connecting",
                        !.host.admin.client = Len(w1.host.sessions)])

\* restartServer(serverId) is called on its own
HostRestartServerCalled(w, serverId) ==
    Then(HostDisconnectServerCalled(w, "restart", serverId), LAMBDA w1 :
        IF w1.host.admin.pc = "closing" THEN w1 ELSE HostRestartServerDisconnected(w1))

\* the disconnectServer that keeps the entry when client.close() threw
HostDisconnectReturnedKeepingBroken(w, closed) ==
    Then([w EXCEPT !.host.sessions[w.host.admin.client].state =
                       IF closed THEN "closed" ELSE "close failed"], LAMBDA w1 :
        Then(IF closed
             THEN HostDelete(
                      HostSetStatus(w1, w1.host.admin.serverId, w1.host.admin.client,
                                    "disconnected"),
                      w1.host.admin.serverId)
             ELSE w1, LAMBDA w2 :
            IF w2.host.admin.op = "disconnectAll" THEN HostKeysNext(w2)
            ELSE IF w2.host.admin.op = "restart" THEN HostRestartServerDisconnected(w2)
            ELSE [w2 EXCEPT !.host.admin.pc = "idle"]))

\* disconnectServer after client.close() returned or threw: status 'disconnected',
\* the entry is deleted; then its caller goes on
HostDisconnectReturned(w, closed) ==
    Then([w EXCEPT !.host.sessions[w.host.admin.client].state =
                       IF closed THEN "closed" ELSE "close failed"], LAMBDA w1 :
        Then(HostDelete(
                 HostSetStatus(w1, w1.host.admin.serverId, w1.host.admin.client,
                               "disconnected"),
                 w1.host.admin.serverId), LAMBDA w2 :
            IF w2.host.admin.op = "disconnectAll" THEN HostKeysNext(w2)
            ELSE IF w2.host.admin.op = "restart" THEN HostRestartServerDisconnected(w2)
            ELSE [w2 EXCEPT !.host.admin.pc = "idle"]))

\* the restartServer that answers the new server although connectServer threw
HostRestartServerReturnedAlways(w, outcome) ==
    Then(HostConnectServerReturned(
             w, MCP_SERVERS[IndexOfId(MCP_SERVERS, w.host.admin.serverId, 1)],
             w.host.admin.client, outcome), LAMBDA w1 :
        [w1 EXCEPT !.host.admin.pc = "idle",
                   !.host.admin.returned = w.host.admin.client])

\* restartServer after connectServer returned (the new server) or threw (null)
HostRestartServerReturned(w, outcome) ==
    Then(HostConnectServerReturned(
             w, MCP_SERVERS[IndexOfId(MCP_SERVERS, w.host.admin.serverId, 1)],
             w.host.admin.client, outcome), LAMBDA w1 :
        [w1 EXCEPT !.host.admin.pc = "idle",
                   !.host.admin.returned = IF outcome.ok THEN w.host.admin.client ELSE 0])

\* the server id lists connectServers is asked for
HostServerIdChoices ==
    ServerIdChoices \cup { <<"filesystem", "filesystem">>,
                           <<"unknown-server", "brave-search", "filesystem">> }

\* setInterval fires: checkServerHealth starts at the first entry of the map
HostSweepStart ==
    /\ host.sweep.pc = "idle"
    /\ Install(HostSweepNext(
           [World EXCEPT !.host.sweep.pos = 1,
                         !.host.sweep.startedAt = World.now,
                         !.host.sweep.alone = World.host.connect.pc = "idle"
                                                  /\ World.host.admin.pc = "idle",
                         !.host.connect.alone = @ /\ World.host.connect.pc = "idle",
                         !.host.admin.alone = @ /\ World.host.admin.pc = "idle"]))

\* connected.client.listTools() of the health check answers or throws
HostProbeReturned ==
    /\ host.sweep.pc = "probing"
    /\ \E ok \in BOOLEAN :
           /\ ok \/ Len(host.sessions) < MaxSessions
           /\ Install(IF ok THEN HostProbeSucceeded(World) ELSE HostProbeFailed(World))

\* client.close() of the restart returns or throws
HostSweepCloseReturned ==
    /\ host.sweep.pc = "closing"
    /\ \E closed \in BOOLEAN : Install(HostCloseReturned(World, closed))

\* connectServer of the restart returns or throws
HostSweepConnectReturned ==
    /\ host.sweep.pc = "connecting"
    /\ \E outcome \in ConnectOutcomes(host.sweep.serverId) :
           Install(HostRestartReturned(World, outcome))

\* a caller invokes a tool
HostExecuteTool ==
    /\ host.call.pc = "idle"
    /\ \E toolName \in {"read_file", "search", "query"} :
           /\ findToolServer(connectedServers, toolName) # 0
           /\ Install(HostExecuteToolCalled(World, toolName))

\* client.callTool answers, throws, or the timer wins: executeTool returns
HostToolReturned ==
    /\ host.call.pc = "inflight"
    /\ Install([World EXCEPT !.host.call = NoHost.call])

\* a caller invokes a tool, known or not
HostInvoke ==
    /\ host.call.pc = "idle"
    /\ \E toolName \in {"read_file", "search", "no_such_tool"} :
           Install(HostExecuteToolCalled(World, toolName))

\* client.callTool answers or throws, or the timer wins: executeTool returns its result
HostInvokeDone ==
    /\ host.call.pc = "inflight"
    /\ \E outcome \in ToolOutcomes(host.call.toolName) :
           /\ outcome.kind = "timeout" => host.call.late < MaxLateOutcomes
           /\ Install(HostExecuteToolReturned(World, outcome))

\* a call that lost the race settles
HostLateOutcomeArrives ==
    /\ host.call.late > 0
    /\ \E text \in {"late ok", "late boom"} : Install(HostLateOutcome(World, text))

\* a caller connects a list of servers
HostConnectServers ==
    /\ host.connect.pc = "idle"
    /\ Len(host.sessions) < MaxSessions
    /\ \E serverIds \in HostServerIdChoices :
           Install(HostConnectServersCalled(World, serverIds))

\* a caller connects one server
HostConnectServer ==
    /\ host.connect.pc = "idle"
    /\ Len(host.sessions) < MaxSessions
    /\ \E def \in 1..Len(MCP_SERVERS) :
           Install(HostConnectServerCalled(World, MCP_SERVERS[def]))

\* the awaited connectServer of the caller returns or throws
HostConnectServerDone ==
    /\ host.connect.pc = "connecting"
    /\ \E outcome \in ConnectOutcomes(host.connect.serverIds[host.connect.index]) :
           Install(HostConnectReturned(World, outcome))

\* the server ids a caller disconnects or restarts
HostServerIds == {"filesystem", "brave-search", "unknown-server"}

\* a caller disconnects one server
HostDisconnectServer ==
    /\ host.admin.pc = "idle"
    /\ \E serverId \in HostServerIds :
           Install(HostDisconnectServerCalled(World, "disconnect", serverId))

\* a caller disconnects all servers
HostDisconnectAll ==
    /\ host.admin.pc = "idle"
    /\ Install(HostDisconnectAllCalled(World))

\* a caller restarts one server
HostRestartServer ==
    /\ host.admin.pc = "idle"
    /\ Len(host.sessions) < MaxSessions
    /\ \E serverId \in HostServerIds :
           Install(HostRestartServerCalled(World, serverId))

\* client.close() of the caller's disconnect returns or throws
HostDisconnectDone ==
    /\ host.admin.pc = "closing"
    /\ \E closed \in BOOLEAN : Install(HostDisconnectReturned(World, closed))

\* connectServer of the caller's restart returns or throws
HostRestartServerDone ==
    /\ host.admin.pc = "connecting"
    /\ \E outcome \in ConnectOutcomes(host.admin.serverId) :
           Install(HostRestartServerReturned(World, outcome))

HostAdminNext ==
    \/ HostConnectServers
    \/ HostConnectServer
    \/ HostConnectServerDone
    \/ HostDisconnectServer
    \/ HostDisconnectAll
    \/ HostRestartServer
    \/ HostDisconnectDone
    \/ HostRestartServerDone

\* time passes
HostTick ==
    /\ now < MaxClock
    /\ now' = now + 1
    /\ UNCHANGED <<tasks, toolCalls, modelCalls, orchestratorVars>>

HostInvokeNext ==
    \/ HostConnectServers
    \/ HostConnectServerDone
    \/ HostInvoke
    \/ HostInvokeDone
    \/ HostLateOutcomeArrives

HostSweepNextStep ==
    \/ HostConnectServers
    \/ HostConnectServerDone
    \/ HostSweepStart
    \/ HostProbeReturned
    \/ HostSweepCloseReturned
    \/ HostSweepConnectReturned
    \/ HostTick

HostNext ==
    \/ HostSweepStart
    \/ HostProbeReturned
    \/ HostSweepCloseReturned
    \/ HostSweepConnectReturned
    \/ HostExecuteTool
    \/ HostToolReturned
    \/ HostConnectServers
    \/ HostConnectServer
    \/ HostConnectServerDone

HostInit == StoreInit /\ IdleOrchestrator

\* the connection manager under a periodic health check, tool calls and connects
SpecHost == HostInit /\ [][HostNext]_vars

\* tool invocations beside connectServers
SpecHostInvoke == HostInit /\ [][HostInvokeNext]_vars

\* runTaskGenerator after executeTool has returned, the call that lost the race
\* against the timer still pending
WebToolReturnedRaced(w, outcome) ==
    LET toolName == w.run.toolUses[w.run.toolIndex].name
        found == findToolServer(w.connectedServers, toolName) # 0
    IN  Then(WebToolReturned(w, outcome), LAMBDA w1 :
            [w1 EXCEPT !.host.call.toolName = toolName,
                       !.host.call.returned =
                           executeTool(w.connectedServers, toolName, outcome),
                       !.host.call.late =
                           IF found /\ outcome.kind = "timeout" THEN @ + 1 ELSE @])

\* executeTool has returned to runTaskGenerator
WebToolResultRaced ==
    /\ pc = "awaitTool"
    /\ \E outcome \in ToolOutcomes(run.toolUses[run.toolIndex].name) :
           /\ outcome.kind = "timeout" => host.call.late < MaxLateOutcomes
           /\ Install(WebToolReturnedRaced(World, outcome))

WebLateNext ==
    \/ WebRun
    \/ WebConnected
    \/ WebModelReply
    \/ WebToolResultRaced
    \/ HostLateOutcomeArrives

\* one run of the streaming orchestrator, with the tool calls that lost their race
SpecWebLate == WebInit /\ [][WebLateNext]_vars

\* the periodic health check beside connectServers, as time passes
SpecHostSweep == HostInit /\ [][HostSweepNextStep]_vars

\* the connection manager under connects, disconnects and restarts by its callers
SpecHostAdmin == HostInit /\ [][HostAdminNext]_vars

(***************************************************************************)
(* Claims about the Trace Store                                            *)
(***************************************************************************)
IsTerminal(ts, taskId) == taskId \in DOMAIN ts /\ ts[taskId].status \in TerminalStatuses

StatusKept(taskId) == tasks'[taskId].status = tasks[taskId].status

TotalsMatch(ts, mcs, taskId) ==
    /\ ts[taskId].totalInputTokens = SumField(RowsOf(mcs, taskId), "inputTokens")
    /\ ts[taskId].totalOutputTokens = SumField(RowsOf(mcs, taskId), "outputTokens")

\* C6: when complete_task runs for a task, the task's stored totalInputTokens equals the
\* sum of inputTokens over all ModelCall rows of that task, and totalOutputTokens the sum
\* of their outputTokens.
C6_TotalsMatchWhenCompleteTaskRuns ==
    [][\A taskId \in DOMAIN tasks, c \in CompletionChoices :
          CompleteTaskOf(taskId, c) => TotalsMatch(tasks', modelCalls', taskId)]_vars

\* C6 witness: a completed task with two recorded model calls and both sums stored.
C6_Witness ==
    \E taskId \in DOMAIN tasks :
        /\ tasks[taskId].finishedAt # UndefinedNumber
        /\ Len(modelCalls[taskId]) >= 2
        /\ tasks[taskId].totalInputTokens = 8
        /\ tasks[taskId].totalOutputTokens = 3

\* C7: the sequenceNumber values of a task's ToolCall rows, in creation order, are
\* exactly 1, 2, ..., N, after any sequence of start_tool_call and complete_tool_call.
C7_SequenceNumbersAreOneToN ==
    \A taskId \in DOMAIN toolCalls :
        \A i \in 1..Len(toolCalls[taskId]) : toolCalls[taskId][i].sequenceNumber = i

\* C7 witness: a task with two rows, the first completed and the second running.
C7_Witness ==
    \E taskId \in DOMAIN toolCalls :
        /\ Len(toolCalls[taskId]) >= 2
        /\ toolCalls[taskId][1].status # "running"
        /\ toolCalls[taskId][2].status = "running"

IsFinalized(row) == row.finishedAt # UndefinedNumber

\* C8: a second complete_tool_call with the same id leaves the stored ToolCall as the
\* first completion left it: a finalized ToolCall is never mutated again.
C8_FinalizedToolCallNeverMutated ==
    [][\A taskId \in DOMAIN toolCalls :
          \A i \in 1..Len(toolCalls[taskId]) :
              IsFinalized(toolCalls[taskId][i])
              => toolCalls'[taskId][i] = toolCalls[taskId][i]]_vars

EllipsisMarker == "..."

\* what C9 says is stored for the string `original`
StoredAsClaimed(original, stored) ==
    IF Len(original) <= StoredMaxLength
    THEN stored = original
    ELSE /\ Len(stored) = StoredMaxLength
         /\ SubSeq(stored, StoredMaxLength - 2, StoredMaxLength) = EllipsisMarker
         /\ SliceTo(stored, StoredMaxLength - 3) = SliceTo(original, StoredMaxLength - 3)

\* C9: an arguments or result string of at most 1000 characters is stored unchanged; a
\* longer one is stored as exactly 1000 characters, the last ones being the ellipsis
\* marker and the ones before it a prefix of the original.
C9_StoredUnchangedOrTruncated ==
    [][/\ \A taskId \in DOMAIN tasks, args \in ArgsChoices :
            toolCalls[taskId] = <<>> /\ StartToolCallOf(taskId, args)
            => StoredAsClaimed(JSONstringify(args), toolCalls'[taskId][1].arguments)
       /\ \A taskId \in DOMAIN tasks, r \in ResultChoices, status \in {"success", "error"} :
            /\ toolCalls[taskId] # <<>>
            /\ CompleteToolCallOf(toolCalls[taskId][1].id, taskId,
                   [status |-> status, result |-> r,
                    errorMessage |-> IF status = "error" THEN r ELSE Undefined])
            => StoredAsClaimed(r, toolCalls'[taskId][1].result)]_vars

\* What does hold of the code: C9 for every arguments string and every non-empty result.
TruncationOfNonEmptyStrings ==
    [][/\ \A taskId \in DOMAIN tasks, args \in ArgsChoices :
            toolCalls[taskId] = <<>> /\ StartToolCallOf(taskId, args)
            => StoredAsClaimed(JSONstringify(args), toolCalls'[taskId][1].arguments)
       /\ \A taskId \in DOMAIN tasks, r \in ResultChoices \ {""}, status \in {"success", "error"} :
            /\ toolCalls[taskId] # <<>>
            /\ CompleteToolCallOf(toolCalls[taskId][1].id, taskId,
                   [status |-> status, result |-> r,
                    errorMessage |-> IF status = "error" THEN r ELSE Undefined])
            => StoredAsClaimed(r, toolCalls'[taskId][1].result)]_vars

(***************************************************************************)
(* Claims about the streaming orchestrator                                 *)
(***************************************************************************)
IsTerminalEvent(e) == e.type \in {"task-completed", "error"}

EventsOfType(type) == { i \in 1..Len(events) : events[i].type = type }

TerminalEvents == { i \in 1..Len(events) : IsTerminalEvent(events[i]) }

LastEvent == events[Len(events)]

\* At most one terminal event, nothing after it, and none missing once the run is over.
OneTerminalEventAndNothingAfter ==
    /\ Cardinality(TerminalEvents) <= 1
    /\ \A i \in TerminalEvents : i = Len(events) /\ pc = "done"
    /\ pc = "done" => Cardinality(TerminalEvents) = 1

\* C1: every run, whatever the connect outcomes, model replies, tool outcomes and
\* failures, ends, and its event stream then holds exactly one terminal event
\* (task-completed or error), which is its last event.
C1_ExactlyOneTerminalEvent ==
    /\ [](OneTerminalEventAndNothingAfter)
    /\ <>(pc = "done")

\* C1 witness: a run that failed at a model call after a tool call had completed.
C1_Witness ==
    /\ pc = "done"
    /\ LastEvent.type = "error"
    /\ LastEvent.code = "UNKNOWN_ERROR"
    /\ \E i \in EventsOfType("tool-call") : events[i].status = "success"

ModelFailureMessages == { r.failure : r \in { c \in ReplyChoices : c.failure # NoFailure } }

\* the run is over, it entered the loop, every model call returned a reply and every
\* reply requested tool invocations
EveryReplyRequestedTools ==
    /\ pc = "done"
    /\ messages # <<>>
    /\ LastEvent.type = "error" => LastEvent.message \notin ModelFailureMessages
    /\ \A i \in EventsOfType("llm-response") : events[i].hasToolCalls

\* C3: a run never emits more than maxIterations llm-response events; when every model
\* reply requests tool invocations it emits exactly maxIterations of them, and then the
\* task ends with status timeout and a single error event reporting the exceeded budget.
C3_BudgetExceededAfterMaxIterations ==
    /\ Cardinality(EventsOfType("llm-response")) <= MaxIterations
    /\ EveryReplyRequestedTools
       => /\ Cardinality(EventsOfType("llm-response")) = MaxIterations
          /\ tasks[run.taskId].status = "timeout"
          /\ tasks[run.taskId].iterationCount = MaxIterations
          /\ Cardinality(EventsOfType("error")) = 1
          /\ LastEvent = ErrorEvent("Max iterations exceeded", "MAX_ITERATIONS")

\* C3 witness: a run whose replies all requested tools and which is over.
C3_Witness ==
    /\ EveryReplyRequestedTools
    /\ Cardinality(EventsOfType("llm-response")) = MaxIterations
    /\ tasks[run.taskId].status = "timeout"

\* connectServers is over and the map holds none of the requested servers
NoneConnected ==
    /\ pc \notin {"idle", "awaitConnect"}
    /\ \A i \in 1..Len(connectedServers) : connectedServers[i].id \notin IdsOf(run.serverIds)

\* C10: when none of the requested providers can be connected, the task ends with status
\* failed, the event stream is exactly task-started followed by one error event, and
\* no model call is made.
C10_NoProviderConnected ==
    NoneConnected
    => /\ pc = "done"
       /\ tasks[run.taskId].status = "failed"
       /\ Len(events) = 2
       /\ events[1].type = "task-started"
       /\ events[2].type = "error"
       /\ modelCalls[run.taskId] = <<>>
       /\ toolCalls[run.taskId] = <<>>
       /\ tasks[run.taskId].iterationCount = 0

\* C10 witness: two providers were requested and neither could be connected.
C10_Witness ==
    /\ NoneConnected
    /\ Len(run.serverIds) = 2
    /\ tasks[run.taskId].errorMessage = "No MCP servers could be connected"

(***************************************************************************)
(* Claims about the command-line orchestrator                              *)
(***************************************************************************)
\* C2: every task that has reached a terminal status has an iterationCount of at most
\* maxIterations, rate-limit failures that are retried included.
C2_IterationCountWithinBudget ==
    \A taskId \in DOMAIN tasks :
        IsTerminal(tasks, taskId) => tasks[taskId].iterationCount <= MaxIterations

\* C5: once runTask has returned, the stored task is in one of the terminal statuses,
\* whatever stop reason the last model reply carried.
C5_ReturnedRunLeavesTaskTerminal ==
    run.runTask = "returned" => tasks[run.taskId].status \in TerminalStatuses

(***************************************************************************)
(* Claims about the order of events and about tool failures                *)
(***************************************************************************)
\* the ToolCall row the run is working on
CurrentToolCall(tcs) == tcs[run.taskId][findIndex(tcs[run.taskId], run.toolCallId)]

\* the reply asked for one tool invocation, which is in flight
OneToolInFlight == pc = "awaitTool" /\ Len(run.toolUses) = 1

\* ... and the last two events are its llm-response and its running event
RunningFollowsResponse ==
    /\ Len(events) >= 2
    /\ events[Len(events) - 1].type = "llm-response"
    /\ events[Len(events) - 1].hasToolCalls
    /\ events[Len(events)].type = "tool-call"
    /\ events[Len(events)].status = "running"
    /\ events[Len(events)].toolCallId = run.toolCallId
    /\ ~events[Len(events)].isSubToolCall

\* the step in which that one invocation returns with success
OneToolSucceeds == OneToolInFlight /\ CurrentToolCall(toolCalls').status = "success"

\* position i of events' holds the success event of the invocation
SuccessEventAt(i) ==
    /\ i <= Len(events')
    /\ events'[i].type = "tool-call"
    /\ events'[i].status = "success"
    /\ events'[i].toolCallId = run.toolCallId
    /\ ~events'[i].isSubToolCall
    /\ \A j \in (i + 1)..Len(events') : events'[j].type = "error"

\* the first event of the step after the last tool result is the next llm-response,
\* or the terminal error when that model call fails
NextResponseFollows ==
    (pc = "awaitModel" /\ events[Len(events)].type = "tool-call")
    => /\ Len(events') > Len(events)
       /\ events'[Len(events) + 1].type \in {"llm-response", "error"}
       /\ events'[Len(events) + 1].type = "llm-response" <=> modelCalls' # modelCalls

\* C11 as stated: llm-response, tool-call running, tool-call success for the same id,
\* next llm-response, with nothing in between.
C11_NothingBetweenRunningAndSuccess ==
    /\ [](OneToolInFlight => RunningFollowsResponse)
    /\ [][(OneToolSucceeds => SuccessEventAt(Len(events) + 1)) /\ NextResponseFollows]_vars

\* C11 amended: between the running event and the success event of the invocation there
\* are only sub-tool-call events whose parent is that invocation; the rest is as stated.
C11_OnlySubToolCallsBetweenRunningAndSuccess ==
    /\ [](OneToolInFlight => RunningFollowsResponse)
    /\ [][/\ OneToolSucceeds
             => \E i \in (Len(events) + 1)..Len(events') :
                   /\ SuccessEventAt(i)
                   /\ \A j \in (Len(events) + 1)..(i - 1) :
                         /\ events'[j].type = "tool-call"
                         /\ events'[j].isSubToolCall
                         /\ events'[j].parentToolCallId = run.toolCallId
          /\ NextResponseFollows]_vars

\* C11 witness: llm-response, running, success of the same id, llm-response in a row.
C11_Witness ==
    \E i \in 1..(Len(events) - 3) :
        /\ events[i].type = "llm-response"
        /\ events[i + 1].type = "tool-call" /\ events[i + 1].status = "running"
        /\ events[i + 2].type = "tool-call" /\ events[i + 2].status = "success"
        /\ events[i + 2].toolCallId = events[i + 1].toolCallId
        /\ events[i + 3].type = "llm-response"

\* the tool use executeTool is awaited for
CurrentToolUse == run.toolUses[run.toolIndex]

\* the invocation has no owning provider, or its timer expires, or the provider fails
ToolFails(outcome) ==
    \/ findToolServer(connectedServers, CurrentToolUse.name) = 0
    \/ outcome.kind \in {"timeout", "rejected"}
    \/ outcome.isError

\* what a failed invocation leaves: an error row, an error event, the error as a tool
\* result of the conversation, and a task that goes on
FailureBecomesToolResult(outcome) ==
    LET r == executeTool(connectedServers, CurrentToolUse.name, outcome)
        row == CurrentToolCall(toolCalls')
        toolResult == [ type |-> "tool_result", tool_use_id |-> CurrentToolUse.id,
                        content |-> r.result, is_error |-> TRUE ]
    IN  /\ r.isError
        /\ findToolServer(connectedServers, CurrentToolUse.name) = 0
           => r.result = "Tool not found: " \o CurrentToolUse.name
        /\ (findToolServer(connectedServers, CurrentToolUse.name) # 0 /\ outcome.kind = "timeout")
           => includes(r.result, "timed out")
        /\ row.status = "error"
        /\ row.errorMessage = r.result
        /\ \E i \in (Len(events) + 1)..Len(events') :
              /\ events'[i].type = "tool-call"
              /\ events'[i].toolCallId = run.toolCallId
              /\ events'[i].status = "error"
              /\ events'[i].errorMessage = r.result
        /\ \A i \in (Len(events) + 1)..Len(events') :
              events'[i].type = "error" => events'[i].code = "MAX_ITERATIONS"
        /\ IF run.toolIndex < Len(run.toolUses)
           THEN /\ pc' = "awaitTool"
                /\ run'.toolResults[Len(run'.toolResults)] = toolResult
           ELSE LET last == messages'[Len(messages')]
                IN  /\ last.role = "user"
                    /\ last.content[Len(last.content)] = toolResult
                    /\ IF run.iteration < MaxIterations
                       THEN pc' = "awaitModel" /\ tasks'[run.taskId].status = "running"
                       ELSE pc' = "done" /\ tasks'[run.taskId].status = "timeout"

\* C12: a tool invocation that times out, fails at the provider or has no owning provider
\* becomes an error tool result (error event, error ToolCall row); the task is not ended
\* by it, and the loop goes on to the next model call with the error in the conversation.
C12_ToolFailureBecomesToolResult ==
    [][pc = "awaitTool"
       => \A outcome \in ToolOutcomes(CurrentToolUse.name) :
             (ToolFails(outcome) /\ World' = WebToolReturned(World, outcome))
             => FailureBecomesToolResult(outcome)]_vars

\* C12 witness: a timed-out invocation and an invocation without owner were reported
\* as errors, and a later model call replied.
C12_Witness ==
    \E i, j, k \in 1..Len(events) :
        /\ i < k /\ j < k
        /\ events[i].type = "tool-call" /\ events[i].status = "error"
        /\ includes(events[i].errorMessage, "timed out")
        /\ events[j].type = "tool-call" /\ events[j].status = "error"
        /\ includes(events[j].errorMessage, "Tool not found")
        /\ events[k].type = "llm-response"

(***************************************************************************)
(* Claims about rate-limit retries (command-line orchestrator)             *)
(***************************************************************************)
\* C13: when the model call of iteration k fails with a rate-limit signal and is retried,
\* the iteration counter of the retry is still k, in the loop and in the store.
C13_RetryKeepsIterationCounter ==
    [][(pc = "sleeping" /\ pc' = "awaitModel")
       => /\ run'.iteration = run.iteration
          /\ tasks'[run.taskId].iterationCount = tasks[run.taskId].iterationCount]_vars

\* runTask has returned after a loop in which model calls were made and none replied,
\* without the task timer
ReturnedWithoutAnyReply ==
    /\ run.runTask = "returned"
    /\ pc = "done"
    /\ ~run.timerFired
    /\ tasks[run.taskId].iterationCount > 0
    /\ modelCalls[run.taskId] = <<>>

\* C14: when the model service answers every call with a failure, rate-limit failures
\* included, the loop stops and the task ends with status failed.
C14_RateLimitedForeverEndsFailed ==
    ReturnedWithoutAnyReply => tasks[run.taskId].status = "failed"

(***************************************************************************)
(* Claims about the end of a run: cleanup, time budget                     *)
(***************************************************************************)
\* C15: when a run has finished, on whatever exit path, no provider requested for the
\* task is left in the provider map.
C15_ProvidersDisconnectedAtExit ==
    pc = "done"
    => \A i \in 1..Len(connectedServers) : connectedServers[i].id \notin IdsOf(run.serverIds)

\* C16: once the time budget of the task is used up (the task timer has fired), the loop
\* starts no further iteration and so no further model call.
C16_NoIterationAfterTimeBudget ==
    [][run.timerFired
       => tasks'[run.taskId].iterationCount = tasks[run.taskId].iterationCount]_vars

\* C17: a run stopped by a cancellation request before its task reached another terminal
\* status leaves the task with status cancelled.
C17_CancelledRunEndsCancelled ==
    (pc = "aborted" /\ tasks[run.taskId].status \notin {"succeeded", "failed", "timeout"})
    => tasks[run.taskId].status = "cancelled"


(***************************************************************************)
(* Claims about the connection manager                                     *)
(***************************************************************************)
\* the session of the client is open and the map still holds its ConnectedServer
SessionServes(h, client) ==
    /\ h.sessions[client].state = "open"
    /\ \E serverId \in DOMAIN h.clients : h.clients[serverId] = client

\* C18: while a tool invocation is in flight on a provider, no step of the health
\* check (its probe, its restart) closes that provider's session or removes it
\* from the map.
C18_RestartSparesInFlightCall ==
    [][(host.call.pc = "inflight" /\ host'.sweep # host.sweep
            /\ SessionServes(host, host.call.client))
           => SessionServes(host', host.call.client)]_vars

\* a direct connectServer, with no health check beside it, ends by throwing
DirectConnectFails ==
    /\ host.connect.pc = "connecting"
    /\ host.connect.direct
    /\ host.connect.alone
    /\ host'.connect.pc = "idle"
    /\ host'.connect.threw

\* C19: when connectServer(definition) fails, afterwards the map holds no entry for
\* definition.id, also when it held one before the call.
C19_FailedConnectLeavesNoEntry ==
    [][DirectConnectFails
           => IndexOfId(connectedServers', host.connect.serverIds[1], 1) = 0]_vars

\* connectServers returns in this step
ConnectServersReturns ==
    /\ ~host'.connect.direct
    /\ host'.connect.pc = "idle"
    /\ \/ host.connect.pc = "connecting" /\ ~host.connect.direct
       \/ host.connect.pc = "idle" /\ host'.connect # host.connect

\* the map holds a connected entry for the server
IsConnected(map, serverId) ==
    LET i == IndexOfId(map, serverId, 1)
    IN  i # 0 /\ map[i].status = "connected"

RECURSIVE RequestedAndConnected(_, _)
\* the requested ids the map holds connected, in request order
RequestedAndConnected(serverIds, map) ==
    IF serverIds = <<>> THEN <<>>
    ELSE IF IsConnected(map, Head(serverIds))
    THEN <<Head(serverIds)>> \o RequestedAndConnected(Tail(serverIds), map)
    ELSE RequestedAndConnected(Tail(serverIds), map)

RECURSIVE IsSubsequence(_, _)
\* `ids` can be read off `serverIds` from left to right
IsSubsequence(ids, serverIds) ==
    IF ids = <<>> THEN TRUE
    ELSE IF serverIds = <<>> THEN FALSE
    ELSE IF Head(ids) = Head(serverIds) THEN IsSubsequence(Tail(ids), Tail(serverIds))
    ELSE IsSubsequence(ids, Tail(serverIds))

\* what connectServers returned: no exception; the ConnectedServer objects the map
\* holds for the requested ids that are connected, and no other, in request order
ReturnedTheConnected(h, map) ==
    LET ids == [k \in 1..Len(h.connect.results) |-> h.connect.results[k].id]
    IN  /\ ~h.connect.threw
        /\ IdsOf(ids) = { serverId \in IdsOf(h.connect.serverIds) : IsConnected(map, serverId) }
        /\ IsSubsequence(ids, h.connect.serverIds)
        /\ \A k \in 1..Len(ids) : h.clients[ids[k]] = h.connect.results[k].client

\* connectServers creates a client for a server in this step
ConnectServersOpensSession ==
    /\ ~host'.connect.direct
    /\ host'.connect.pc = "connecting"
    /\ Len(host'.sessions) = Len(host.sessions) + 1
    /\ host'.connect.client = Len(host'.sessions)

AdminReturns(op) ==
    /\ host'.admin.op = op
    /\ host'.admin.pc = "idle"
    /\ host'.admin # host.admin

\* C21: disconnectServer(id) leaves no entry for id in the map, whether client.close()
\* returned or threw, and returns normally; when disconnectAllServers() returns and
\* no connect ran beside it, the map is empty.
C21_DisconnectRemovesTheEntry ==
    /\ [][AdminReturns("disconnect")
              => IndexOfId(connectedServers', host'.admin.serverId, 1) = 0]_vars
    /\ [][(AdminReturns("disconnectAll") /\ host'.admin.alone)
              => connectedServers' = <<>>]_vars

\* disconnectAllServers returned after closing two clients, the first of which threw
C21_Witness ==
    /\ host.admin.op = "disconnectAll"
    /\ host.admin.pc = "idle"
    /\ host.admin.alone
    /\ connectedServers = <<>>
    /\ Len(host.sessions) = 2
    /\ host.sessions[1].state = "close failed"
    /\ host.sessions[2].state = "closed"

\* what a restart on its own leaves: the old client is not the map's any more; the
\* new ConnectedServer is returned, connected and in the map, or null is returned
\* and the map has no entry for the server
RestartedOrGone(h, map) ==
    LET serverId == h.admin.serverId
        i == IndexOfId(map, serverId, 1)
    IN  /\ h.admin.replaced # 0 =>
               h.sessions[h.admin.replaced].state \in {"closed", "close failed"}
        /\ IF h.admin.returned # 0
           THEN /\ i # 0
                /\ map[i].status = "connected"
                /\ h.clients[serverId] = h.admin.returned
                /\ h.admin.returned # h.admin.replaced
                /\ h.sessions[h.admin.returned].state = "open"
           ELSE i = 0

SweepReturns == host.sweep.pc # "idle" /\ host'.sweep.pc = "idle"

\* every entry of the map is connected and was probed or connected since time t
AllConnectedAndCheckedSince(map, t) ==
    \A i \in 1..Len(map) : map[i].status = "connected" /\ map[i].lastHealthCheck >= t

\* the probed entry after a probe that answered: it keeps its client, whose session
\* is open; its status is connected and its last check is of this moment
ProbedEntryKept ==
    LET serverId == host.sweep.serverId
        i == IndexOfId(connectedServers', serverId, 1)
    IN  /\ i # 0
        /\ connectedServers'[i].status = "connected"
        /\ connectedServers'[i].lastHealthCheck = now
        /\ host'.clients[serverId] = host.sweep.client
        /\ host'.sessions[host.sweep.client].state = "open"

\* the probed entry after a probe that failed: marked error, its restart under way
ProbedEntryRestarting ==
    LET serverId == host.sweep.serverId
        i == IndexOfId(connectedServers', serverId, 1)
    IN  /\ i # 0
        /\ connectedServers'[i].status = "error"
        /\ host'.sweep.pc = "closing"
        /\ host'.sweep.serverId = serverId

ToolNames == {"read_file", "search", "query", "no_such_tool"}

Offers(entry, toolName) == \E k \in 1..Len(entry.tools) : entry.tools[k] = toolName

\* C24: findToolServer(toolName) returns the earliest-inserted entry of the map whose
\* tools contain toolName, returns undefined exactly when no entry offers it, and
\* never returns an entry whose status is not connected.
C24_OwnerIsFirstConnectedOffering ==
    \A toolName \in ToolNames :
        LET i == findToolServer(connectedServers, toolName)
        IN  /\ i = 0 <=> \A j \in 1..Len(connectedServers) :
                             ~Offers(connectedServers[j], toolName)
            /\ i # 0 => /\ Offers(connectedServers[i], toolName)
                        /\ \A j \in 1..(i - 1) : ~Offers(connectedServers[j], toolName)
                        /\ connectedServers[i].status = "connected"

\* the number of tools of the entry of serverId, 0 when the map has none
ToolCount(map, serverId) ==
    LET i == IndexOfId(map, serverId, 1)
    IN  IF i = 0 THEN 0 ELSE Len(map[i].tools)

RECURSIVE ToolsBefore(_, _, _)
\* the number of tools the first k of serverIds contribute
ToolsBefore(map, serverIds, k) ==
    IF k = 0 THEN 0
    ELSE ToolsBefore(map, serverIds, k - 1) + ToolCount(map, serverIds[k])

\* `tools` holds, for each requested id in turn, the tools of its entry in their own
\* order, tagged with the server's name and id, and nothing else
ListsToolsByRequestOrder(tools, serverIds, map) ==
    /\ Len(tools) = ToolsBefore(map, serverIds, Len(serverIds))
    /\ \A k \in 1..Len(serverIds) :
           LET i == IndexOfId(map, serverIds[k], 1)
           IN  \A j \in 1..ToolCount(map, serverIds[k]) :
                   tools[ToolsBefore(map, serverIds, k - 1) + j]
                       = [name |-> map[i].tools[j], serverName |-> map[i].name,
                          serverId |-> serverIds[k]]

ReturnedNormalizedError(returned, toolName, found, outcome) ==
    /\ returned.isError \in BOOLEAN
    /\ ~found => /\ returned.isError
                 /\ returned.result = "Tool not found: " \o toolName
    /\ (found /\ outcome.kind = "rejected")
           => returned.isError /\ includes(returned.result, outcome.text)
    /\ (found /\ outcome.kind = "timeout")
           => returned.isError /\ includes(returned.result, "timed out after")

\* C26: executeTool returns a result in every case: for an unknown tool isError with a
\* tool-not-found message, for a call that threw isError with the message of the
\* failure, for an expired timer isError with a timeout message.
C26_InvokeReturnsNormalizedErrors ==
    /\ [][\A toolName \in ToolNames :
              (host.call.pc = "idle" /\ host'.call.pc = "idle"
                   /\ World' = HostExecuteToolCalled(World, toolName))
              => ReturnedNormalizedError(host'.call.returned, toolName, FALSE, NoOutcome)]_vars
    /\ [][host.call.pc = "inflight" =>
              \A outcome \in ToolOutcomes(host.call.toolName) :
                  World' = HostExecuteToolReturned(World, outcome)
                  => ReturnedNormalizedError(host'.call.returned, host.call.toolName,
                                             TRUE, outcome)]_vars

\* read_file was invoked on a connected server and the timer won the race
C26_Witness ==
    /\ host.call.pc = "idle"
    /\ host.call.toolName = "read_file"
    /\ host.call.client # 0
    /\ host.call.returned.isError
    /\ includes(host.call.returned.result, "timed out after 30000ms")

\* C27: no step of executeTool (the call, its return on success, error or timeout, a
\* late outcome) changes the map, an entry's status, tools or last check, or a session.
C27_InvokeLeavesServersAlone ==
    [][host'.call # host.call
           => /\ connectedServers' = connectedServers
              /\ host'.clients = host.clients
              /\ host'.sessions = host.sessions]_vars

\* search was invoked on a connected server and the call threw
C27_Witness ==
    /\ host.call.pc = "idle"
    /\ host.call.toolName = "search"
    /\ host.call.client # 0
    /\ host.call.returned.isError
    /\ host.call.returned.result = "Tool execution failed: boom"
    /\ IsConnected(connectedServers, "brave-search")

\* C28: when a call that lost the race against the timer settles afterwards, what
\* executeTool returned, the ToolCall records, the task, the events and the
\* conversation stay as the timeout left them.
C28_LateOutcomeIsDiscarded ==
    [][host'.call.late < host.call.late
           => /\ host'.call.returned = host.call.returned
              /\ toolCalls' = toolCalls
              /\ tasks' = tasks
              /\ events' = events
              /\ messages' = messages]_vars

\* the tool call timed out, its late outcome has arrived, and the record of the call
\* still says error
C28_Witness ==
    /\ host.call.late = 0
    /\ includes(host.call.returned.result, "timed out after")
    /\ \E taskId \in DOMAIN toolCalls :
           /\ toolCalls[taskId] # <<>>
           /\ toolCalls[taskId][Len(toolCalls[taskId])].status = "error"
           /\ includes(toolCalls[taskId][Len(toolCalls[taskId])].result, "timed out after")


(***************************************************************************)
(* Claims about the end of a failed run and about sub-tool-call events     *)
(***************************************************************************)
\* C29: when runTask has returned and the task ended failed or timeout (no servers, no
\* tools, a model failure, the budget used up), the stored task has a non-empty
\* errorMessage; and a run ended by a failure of the model call has status failed.
C29_FailedRunStoresErrorMessage ==
    (run.runTask = "returned" /\ tasks[run.taskId].status \in {"failed", "timeout"})
        => /\ tasks[run.taskId].errorMessage \notin {Undefined, ""}
           /\ run.result.error \in ModelFailureMessages
                  => tasks[run.taskId].status = "failed"

\* the events of this step are, for each sub-tool call in turn, a running and a
\* completed event with one id, flagged and tagged with the parent, and after them
\* the completion event of the parent
SubEventsThenParent(subToolCalls) ==
    LET n == Len(subToolCalls)
        new == SubSeq(events', Len(events) + 1, Len(events'))
    IN  /\ Len(new) >= 2 * n + 1
        /\ \A k \in 1..n :
               LET running == new[2 * k - 1]
                   completed == new[2 * k]
               IN  /\ running.type = "tool-call" /\ completed.type = "tool-call"
                   /\ running.status = "running"
                   /\ completed.status = subToolCalls[k].status
                   /\ completed.toolCallId = running.toolCallId
                   /\ running.toolCallId # run.toolCallId
                   /\ running.isSubToolCall /\ completed.isSubToolCall
                   /\ running.parentToolCallId = run.toolCallId
                   /\ completed.parentToolCallId = run.toolCallId
                   /\ running.toolName = subToolCalls[k].toolName
                   /\ completed.toolName = subToolCalls[k].toolName
        /\ new[2 * n + 1].type = "tool-call"
        /\ new[2 * n + 1].toolCallId = run.toolCallId
        /\ new[2 * n + 1].status \in {"success", "error"}
        /\ ~new[2 * n + 1].isSubToolCall

\* the store after this step is the one a result without sub-tool calls leaves, but
\* for the result text: the same ToolCall records, sequence numbers and iteration count
StoreAsWithoutSubToolCalls(outcome) ==
    LET plain == WebToolReturned(World, [outcome EXCEPT !.parsed = NoParsed])
        rows == toolCalls'[run.taskId]
        plainRows == plain.toolCalls[run.taskId]
    IN  /\ Len(rows) = Len(plainRows)
        /\ \A i \in 1..Len(rows) :
               /\ rows[i].id = plainRows[i].id
               /\ rows[i].sequenceNumber = plainRows[i].sequenceNumber
               /\ rows[i].toolName = plainRows[i].toolName
        /\ tasks'[run.taskId].iterationCount = plain.tasks[run.taskId].iterationCount
        /\ run'.iteration = plain.run.iteration

\* C30: when a tool result carries sub-tool calls, for each of them a running and then
\* a completed event are emitted with the same sub id, both flagged as sub-tool call
\* with parentToolCallId the parent's id, all before the parent's completion event;
\* they add no ToolCall record and change neither the iteration counter nor the
\* sequence numbers.
C30_SubToolCallsAreEventsOnly ==
    [][pc = "awaitTool" =>
          \A outcome \in ToolOutcomes(CurrentToolUse.name) :
              (outcome.parsed # NoParsed
                   /\ findToolServer(connectedServers, CurrentToolUse.name) # 0
                   /\ World' = WebToolReturned(World, outcome))
              => /\ SubEventsThenParent(outcome.parsed.toolCalls)
                 /\ StoreAsWithoutSubToolCalls(outcome)]_vars

\* the events end with running and success of one sub-tool call, running and error of
\* another, and the success of their parent; the task has one ToolCall record
C30_Witness ==
    /\ Len(events) >= 5
    /\ LET n == Len(events)
           IsSub(e, status) == /\ e.type = "tool-call"
                               /\ e.isSubToolCall
                               /\ e.status = status
       IN  /\ IsSub(events[n - 4], "running")
           /\ IsSub(events[n - 3], "success")
           /\ events[n - 3].toolCallId = events[n - 4].toolCallId
           /\ IsSub(events[n - 2], "running")
           /\ IsSub(events[n - 1], "error")
           /\ events[n - 1].toolCallId = events[n - 2].toolCallId
           /\ events[n].type = "tool-call"
           /\ ~events[n].isSubToolCall
           /\ events[n].status = "success"
           /\ events[n].toolCallId = events[n - 1].parentToolCallId
    /\ Len(toolCalls[run.taskId]) = 1

(***************************************************************************)
(* Claims about how a run ends, about the order of tool invocations and    *)
(* about the frame of the trace store operations                           *)
(***************************************************************************)
\* C31: a task becomes succeeded only in a step where the model reply requested no tool
\* invocation and has stop reason end_turn, and the final answer stored is the text of
\* that reply (command-line orchestrator).
C31_SucceededOnlyOnNaturalCompletion ==
    [][\A id \in DOMAIN tasks :
          (tasks[id].status # "succeeded" /\ tasks'[id].status = "succeeded")
          => \E reply \in ReplyChoices :
                 /\ reply.failure = NoFailure
                 /\ Len(reply.toolUses) = 0
                 /\ reply.stop_reason = "end_turn"
                 /\ World' = CliModelReplied(World, reply)
                 /\ tasks'[id].finalAnswer = reply.text]_vars

\* the same for the web orchestrator, with the task-completed event of the step
C31_WebSucceededOnlyOnNaturalCompletion ==
    [][\A id \in DOMAIN tasks :
          (tasks[id].status # "succeeded" /\ tasks'[id].status = "succeeded")
          => \E reply \in ReplyChoices :
                 /\ reply.failure = NoFailure
                 /\ Len(reply.toolUses) = 0
                 /\ reply.stop_reason = "end_turn"
                 /\ World' = WebModelReplied(World, reply)
                 /\ tasks'[id].finalAnswer = reply.text
                 /\ events'[Len(events')].type = "task-completed"
                 /\ events'[Len(events')].finalAnswer = reply.text]_vars

\* the events yielded since the last llm-response event
IterationEvents ==
    LET last == CHOOSE i \in 1..Len(events) :
                    /\ events[i].type = "llm-response"
                    /\ \A j \in (i + 1)..Len(events) : events[j].type # "llm-response"
    IN  SubSeq(events, last + 1, Len(events))

IsParentToolCallEvent(e) == e.type = "tool-call" /\ ~e.isSubToolCall

\* the last llm-response event reported tool calls
InToolIteration ==
    /\ \E i \in 1..Len(events) : events[i].type = "llm-response"
    /\ LET responses == SelectSeq(events, LAMBDA e : e.type = "llm-response")
       IN  responses[Len(responses)].hasToolCalls

\* the tool-call events of the parents p are, for the tool uses 1, 2, .. in the order of
\* the reply, the running event and then the completion event with the same toolCallId
EventsFollowToolUses(p) ==
    \A j \in 1..Len(p) :
        LET k == (j + 1) \div 2
        IN  /\ k <= Len(run.toolUses)
            /\ p[j].toolName = run.toolUses[k].name
            /\ p[j].args = run.toolUses[k].input
            /\ IF j % 2 = 1 THEN p[j].status = "running"
               ELSE /\ p[j].status \in {"success", "error"}
                    /\ p[j].toolCallId = p[j - 1].toolCallId

\* the last ToolCall rows of the task are those of the running events of p, in their
\* order and with increasing sequence numbers
RowsFollowToolUses(p) ==
    LET rows == toolCalls[run.taskId]
        started == (Len(p) + 1) \div 2
        first == Len(rows) - started
    IN  /\ first >= 0
        /\ \A k \in 1..started :
               /\ rows[first + k].id = p[2 * k - 1].toolCallId
               /\ rows[first + k].toolName = run.toolUses[k].name
               /\ k > 1 => rows[first + k].sequenceNumber > rows[first + k - 1].sequenceNumber

\* toolResults holds one result per completed invocation, in the order of the reply, and
\* after the last one it is the content of the user message pushed to the conversation
ResultsFollowToolUses(p) ==
    /\ Len(run.toolResults) = Len(p) \div 2
    /\ \A k \in 1..Len(run.toolResults) :
           run.toolResults[k].tool_use_id = run.toolUses[k].id
    /\ Len(p) = 2 * Len(run.toolUses)
       => messages[Len(messages)] = [role |-> "user", content |-> run.toolResults]

\* C32: within one iteration the tool invocations run one at a time in the order of the
\* reply: the running event of invocation k+1 comes after the completion event of
\* invocation k, and the sequence numbers of the ToolCall rows and the tool results
\* appended to the conversation follow the same order.
C32_ToolUsesRunInOrder ==
    InToolIteration
    => LET p == SelectSeq(IterationEvents, IsParentToolCallEvent)
       IN  /\ EventsFollowToolUses(p)
           /\ RowsFollowToolUses(p)
           /\ ResultsFollowToolUses(p)

\* both invocations of a reply that asked for search and then read_file have completed
C32_Witness ==
    /\ InToolIteration
    /\ Len(run.toolUses) = 2
    /\ LET p == SelectSeq(IterationEvents, IsParentToolCallEvent)
       IN  /\ Len(p) = 4
           /\ p[1].toolName = "search" /\ p[2].toolName = "search"
           /\ p[3].toolName = "read_file" /\ p[4].status \in {"success", "error"}
    /\ Len(messages[Len(messages)].content) = 2

\* a task id that is neither stored nor used by a caller
UnknownTaskId == "task_unknown"

\* completeToolCall finds no row: no list is stored under taskId, or the list has no row
\* with this id
ToolCallNotFound(toolCallId, taskId) ==
    \/ taskId \notin DOMAIN toolCalls
    \/ \A i \in 1..Len(toolCalls[taskId]) : toolCalls[taskId][i].id # toolCallId

\* C33: completeToolCall with a task id or a tool-call id that is not in the store
\* returns undefined and leaves the ToolCall store as it is (it writes neither tasks nor
\* modelCalls in any branch).
C33_CompleteMissingToolCallIsNoOp ==
    \A taskId \in DOMAIN toolCalls \cup {MissingId, UnknownTaskId} :
        \A toolCallId \in StoredToolCallIds \cup {MissingId} :
            \A c \in ToolCompletionChoices :
                ToolCallNotFound(toolCallId, taskId)
                => /\ completeToolCall(toolCalls, toolCallId, taskId, c.status,
                                       c.result, c.errorMessage, now) = toolCalls
                   /\ completeToolCallResult(toolCalls, toolCallId, taskId, c.status,
                                             c.result, c.errorMessage, now) = Undefined

\* the store holds a completed and a running row of a task, and a row of another list
\* whose id is not found under that task
C33_Witness ==
    \E taskId \in DOMAIN toolCalls :
        /\ Len(toolCalls[taskId]) = 2
        /\ toolCalls[taskId][1].status = "success"
        /\ toolCalls[taskId][2].status = "running"
        /\ \E toolCallId \in StoredToolCallIds : ToolCallNotFound(toolCallId, taskId)
        /\ ToolCallNotFound(MissingId, taskId)

\* rows' is rows with one row appended
AppendsOneRow(rows, rowsAfter) ==
    /\ Len(rowsAfter) = Len(rows) + 1
    /\ SubSeq(rowsAfter, 1, Len(rows)) = rows

\* a step of recordModelCall appends one row to the list of one task and leaves the
\* other lists, the Tasks and the ToolCalls as they are
RecordModelCallAppendsOnly ==
    StoreRecordModelCall
    => /\ \E taskId \in DOMAIN modelCalls' :
              /\ AppendsOneRow(RowsOf(modelCalls, taskId), modelCalls'[taskId])
              /\ \A other \in DOMAIN modelCalls' \ {taskId} :
                     other \in DOMAIN modelCalls /\ modelCalls'[other] = modelCalls[other]
       /\ tasks' = tasks
       /\ toolCalls' = toolCalls

\* a step of completeTask changes the record of at most one Task and leaves every
\* ToolCall and ModelCall as it is
CompleteTaskWritesTaskOnly ==
    StoreCompleteTask
    => /\ DOMAIN tasks' = DOMAIN tasks
       /\ \E taskId \in KnownOrMissing(tasks) :
              \A other \in DOMAIN tasks \ {taskId} : tasks'[other] = tasks[other]
       /\ toolCalls' = toolCalls
       /\ modelCalls' = modelCalls

\* C34: recordModelCall only appends one row to the task's ModelCall list and changes no
\* existing row; completeTask changes only the Task record, so the ToolCall and ModelCall
\* rows recorded before it are still there and unchanged after it.
C34_RecordAndCompleteFrames ==
    [][RecordModelCallAppendsOnly /\ CompleteTaskWritesTaskOnly]_vars

\* a task with two ModelCall rows and a completed ToolCall row has been completed
C34_Witness ==
    \E taskId \in DOMAIN tasks :
        /\ tasks[taskId].status = "succeeded"
        /\ Len(RowsOf(modelCalls, taskId)) = 2
        /\ tasks[taskId].totalInputTokens = 8
        /\ Len(RowsOf(toolCalls, taskId)) >= 1
        /\ toolCalls[taskId][1].status = "success"

(***************************************************************************)
(* Claims about routing, sessions, and what happens around the end of a    *)
(* task                                                                    *)
(***************************************************************************)
\* C35: the provider a tool invocation of a task is routed to has its id among the
\* task's enabled provider ids, also when providers an earlier task left connected
\* offer a tool of the same name.
C35_RoutedOnlyToEnabledProviders ==
    pc = "awaitTool"
    => LET server == findToolServer(connectedServers, CurrentToolUse.name)
       IN  server # 0 => connectedServers[server].id \in IdsOf(run.serverIds)

\* the invoked tool is one the task's own providers offer, and yet the invocation is
\* routed to a provider the task did not enable
C35_SameNameMisrouted ==
    /\ pc = "awaitTool"
    /\ \E k \in 1..Len(getToolsForServers(run.serverIds, connectedServers)) :
           getToolsForServers(run.serverIds, connectedServers)[k].name = CurrentToolUse.name
    /\ LET server == findToolServer(connectedServers, CurrentToolUse.name)
       IN  server # 0 /\ connectedServers[server].id \notin IdsOf(run.serverIds)

\* C36: every session that has been opened and not closed is the one the provider map
\* references for its server id (so there is at most one live session per id), under
\* any interleaving of health-check sweeps, their restarts and connectServers calls.
C36_OpenSessionsAreInTheMap ==
    \A client \in 1..Len(host.sessions) :
        host.sessions[client].state = "open"
        => /\ host.sessions[client].serverId \in DOMAIN host.clients
           /\ host.clients[host.sessions[client].serverId] = client

\* an entry was removed from the map while its session stays open: the session of the
\* removed entry is open, it has no entry, and the session closed instead is another one
C36_EntryRemovedWithoutClose ==
    \E client \in 1..Len(host.sessions), other \in 1..Len(host.sessions) :
        /\ host.sessions[client].state = "open"
        /\ host.sessions[client].serverId \notin DOMAIN host.clients
        /\ host.sessions[other].state = "closed"
        /\ host.sessions[other].serverId = host.sessions[client].serverId

\* C37: after a task has been completed with a terminal status no ModelCall or ToolCall
\* row is added for it and its iteration counter is not incremented (command-line
\* orchestrator, where the task timer completes the task while the loop is running).
C37_NothingRecordedAfterTerminal ==
    [][\A taskId \in DOMAIN tasks :
          IsTerminal(tasks, taskId)
          => /\ modelCalls'[taskId] = modelCalls[taskId]
             /\ toolCalls'[taskId] = toolCalls[taskId]
             /\ tasks'[taskId].iterationCount = tasks[taskId].iterationCount]_vars

\* the task ended with status timeout and its stored totals are not the sums of its
\* ModelCall rows
C37_TotalsStaleAfterTimeout ==
    \E taskId \in DOMAIN tasks :
        /\ tasks[taskId].status = "timeout"
        /\ ~TotalsMatch(tasks, modelCalls, taskId)

\* C38: a task run makes at most maxIterations model calls, also when clearStores
\* removes the task from the shared store while the loop is running.
C38_AtMostMaxIterationsModelCalls == ModelRepliesOfRun <= MaxIterations

\* content is one tool_result per tool use, with the ids of the tool uses in their order
ToolResultsAnswer(content, toolUses) ==
    /\ Len(content) = Len(toolUses)
    /\ \A k \in 1..Len(toolUses) :
           /\ content[k].type = "tool_result"
           /\ content[k].tool_use_id = toolUses[k].id

\* the user message first, then pairs of an assistant message that requested tool
\* invocations and the user message holding their results
ConversationWellFormed(msgs, userMessage) ==
    /\ Len(msgs) % 2 = 1
    /\ msgs[1] = [role |-> "user", content |-> userMessage]
    /\ \A i \in 2..Len(msgs) :
           i % 2 = 0
           => /\ msgs[i].role = "assistant"
              /\ Len(msgs[i].content.toolUses) > 0
              /\ msgs[i + 1].role = "user"
              /\ ToolResultsAnswer(msgs[i + 1].content, msgs[i].content.toolUses)

\* C39: at every model call the conversation starts with the user message and then
\* alternates assistant and user messages, each assistant message that requested tool
\* invocations being followed by one user message with one tool result per invocation,
\* with matching ids and in the same order; a reply that requested no tool adds nothing
\* to the conversation.
C39_ConversationWellFormed ==
    /\ [](pc = "awaitModel"
          => ConversationWellFormed(messages, tasks[run.taskId].userMessage))
    /\ [][\A reply \in ReplyChoices :
             (pc = "awaitModel" /\ Len(reply.toolUses) = 0
                  /\ World' = WebModelReplied(World, reply))
             => messages' = messages]_vars

\* the third model call of a run: a reply that requested two invocations and a reply
\* that requested one have been answered
C39_Witness ==
    /\ pc = "awaitModel"
    /\ Len(messages) = 5
    /\ Len(messages[2].content.toolUses) = 2
    /\ Len(messages[3].content) = 2
    /\ Len(messages[4].content.toolUses) = 1

\* the event at i is the running event of a parent tool call
ParentRunningAt(i) ==
    /\ events[i].type = "tool-call"
    /\ ~events[i].isSubToolCall
    /\ events[i].status = "running"

\* the places after i of the completion events with the toolCallId of the event at i
CompletionsOf(i) ==
    { j \in (i + 1)..Len(events) :
        /\ events[j].type = "tool-call"
        /\ events[j].toolCallId = events[i].toolCallId
        /\ events[j].status \in {"success", "error"} }

\* at most one completion event follows a running event, and it comes before the next
\* llm-response or terminal event
RunningThenOneCompletion ==
    \A i \in 1..Len(events) :
        ParentRunningAt(i)
        => \E completions \in {CompletionsOf(i)} :
               /\ Cardinality(completions) <= 1
               /\ \A j \in (i + 1)..Len(events) :
                      events[j].type \in {"llm-response", "task-completed", "error"}
                      => \E k \in completions : k < j

NoRunningRowWhenTerminal ==
    \A taskId \in DOMAIN tasks :
        IsTerminal(tasks, taskId)
        => \A k \in 1..Len(RowsOf(toolCalls, taskId)) :
               toolCalls[taskId][k].status # "running"

\* a running event of a parent tool call has no completion event yet
CompletionPending == \E i \in 1..Len(events) : ParentRunningAt(i) /\ CompletionsOf(i) = {}

\* C40: every tool-call event with status running of a parent tool call is followed,
\* before the next llm-response or terminal event, by exactly one completion event
\* (success or error) with the same toolCallId, and when the task is terminal none of
\* its ToolCall rows has status running.
C40_RunningIsFollowedByCompletion ==
    /\ [](RunningThenOneCompletion /\ NoRunningRowWhenTerminal)
    /\ []<>(~CompletionPending)

\* the run is over with a terminal task after an invocation that failed and one that
\* succeeded, each with its running and its completion event
C40_Witness ==
    /\ pc = "done"
    /\ IsTerminal(tasks, run.taskId)
    /\ \E i, j \in 1..Len(events) :
           /\ ParentRunningAt(i) /\ ParentRunningAt(j)
           /\ \E k \in CompletionsOf(i) : events[k].status = "error"
           /\ \E k \in CompletionsOf(j) : events[k].status = "success"
    /\ Len(toolCalls[run.taskId]) >= 2
====
